---------------------------- MODULE Spec2Model ----------------------------
(***************************************************************************)
(* A model of vroom's Input class (src/structures/vroom/input/input.cpp):  *)
(* ingestion of jobs, shipments and vehicles, the location registry, the   *)
(* compatibility passes, the cost bound and the threaded matrix assembly.  *)
(*                                                                         *)
(* Ranks and matrix indices are 0-based as in the source; TLA+ sequences   *)
(* are 1-based, so jobs[r + 1] is the job of rank r.                       *)
(***************************************************************************)
EXTENDS Integers, Sequences, FiniteSets, TLC

(***************************************************************************)
(* Bounds of the model.                                                    *)
(***************************************************************************)
\* number of add_job / add_shipment / add_vehicle calls in one behaviour
MaxAdds == 3

\* Input::_amount_size, the constructor's amount_size argument
_amount_size == 1

NoIndex == 0 - 1
NoCoords == "none"
NoException == "none"

Max(a, b) == IF a >= b THEN a ELSE b
Min(a, b) == IF a <= b THEN a ELSE b

(***************************************************************************)
(* Values: locations, time windows, jobs, vehicles.                        *)
(***************************************************************************)
\* A location given by coordinates: its index is assigned by the registry.
CoordLoc(c) == [user_index |-> FALSE, index |-> NoIndex, coords |-> c]
\* A location given with a user-supplied matrix index.
IndexLoc(i) == [user_index |-> TRUE, index |-> i, coords |-> NoCoords]
NoLoc == [user_index |-> FALSE, index |-> NoIndex, coords |-> NoCoords]

has_coordinates(loc) == loc.coords # NoCoords

\* Location::operator== and its hash, as a key: two locations are the same
\* map key iff both carry a user index and the indices match, or neither
\* does and the coordinates match.
LocKey(loc) ==
    IF loc.user_index THEN <<"index", loc.index, NoCoords>>
    ELSE <<"coords", NoIndex, loc.coords>>

\* The end of time: TimeWindow's default window is [0, TWEnd].
TWEnd == 2
DefaultTW == [start |-> 0, end |-> TWEnd]
EarlyTW == [start |-> 0, end |-> 0]
LateTW == [start |-> TWEnd, end |-> TWEnd]
is_default(tw) == tw.start = 0 /\ tw.end = TWEnd

Job(id, type, loc, delivery, pickup, skills, tws, priority) ==
    [id |-> id, type |-> type, location |-> loc, delivery |-> delivery,
     pickup |-> pickup, skills |-> skills, tws |-> tws, priority |-> priority]

\* A vehicle is built without steps and without breaks.
Vehicle(id, hs, start, he, end, capacity, skills, tw, profile) ==
    [id |-> id, has_start |-> hs, start |-> start, has_end |-> he, end |-> end,
     capacity |-> capacity, skills |-> skills, tw |-> tw, profile |-> profile,
     steps |-> <<>>, break_id_to_rank |-> <<>>]

(***************************************************************************)
(* The state of an Input object.                                           *)
(***************************************************************************)
VARIABLES
    _no_addition_yet, _has_skills, _has_custom_location_index, _has_TW,
    _homogeneous_locations, _homogeneous_profiles, _has_jobs, _has_shipments,
    _max_matrices_used_index, _all_locations_have_coords, _geometry,
    jobs, vehicles, job_id_to_rank, pickup_id_to_rank, delivery_id_to_rank,
    _locations, _locations_to_index, _matrices_used_index, _profiles,
    _vehicle_to_job_compatibility, _vehicle_to_vehicle_compatibility,
    \* where Input::solve stands between its compatibility passes
    pc,
    \* the assertions of the source found false so far (a debug build aborts
    \* at the first, a release build runs on), and whether the code has
    \* read or written past the end of a vector
    failed_asserts, out_of_range,
    \* the argument of check_cost_bound and what the call computed
    matrix, cost_bound,
    \* the routing servers and wrappers, the matrices by profile
    _servers, _routing_wrappers, _custom_matrices, _matrices,
    \* the locals of set_matrices: the buckets, the exception slot and its
    \* mutex (0 when free, else the thread holding it)
    thread_profiles, ep, ep_m,
    \* where set_matrices stands, and where each of its threads stands
    main, worker,
    \* the exceptions stored into ep, in the order of the stores; the threads
    \* that assigned each profile's matrix; what set_matrices rethrew
    captured, writers, raised,
    \* the last call made on the object and how it ended
    call,
    \* number of ingestion calls made so far, and whether any of them threw
    ncalls, thrown

inputVars ==
    <<_no_addition_yet, _has_skills, _has_custom_location_index, _has_TW,
      _homogeneous_locations, _homogeneous_profiles, _has_jobs, _has_shipments,
      _max_matrices_used_index, _all_locations_have_coords, _geometry,
      jobs, vehicles, job_id_to_rank, pickup_id_to_rank, delivery_id_to_rank,
      _locations, _locations_to_index, _matrices_used_index, _profiles>>

solveVars ==
    <<_vehicle_to_job_compatibility, _vehicle_to_vehicle_compatibility, pc,
      failed_asserts, out_of_range>>

boundVars == <<matrix, cost_bound>>

routingVars == <<_servers, _routing_wrappers, _custom_matrices, _matrices>>

threadVars ==
    <<thread_profiles, ep, ep_m, main, worker, captured, writers, raised>>

matVars == <<routingVars, threadVars>>

vars == <<inputVars, solveVars, boundVars, matVars, call, ncalls, thrown>>

\* The object as one record, for the sequential code of the handlers; `ex`
\* is the exception in flight (NoException when the code runs on).
Self ==
    [_no_addition_yet |-> _no_addition_yet, _has_skills |-> _has_skills,
     _has_custom_location_index |-> _has_custom_location_index,
     _has_TW |-> _has_TW, _homogeneous_locations |-> _homogeneous_locations,
     _homogeneous_profiles |-> _homogeneous_profiles, _has_jobs |-> _has_jobs,
     _has_shipments |-> _has_shipments,
     _max_matrices_used_index |-> _max_matrices_used_index,
     _all_locations_have_coords |-> _all_locations_have_coords,
     _geometry |-> _geometry,
     jobs |-> jobs, vehicles |-> vehicles, job_id_to_rank |-> job_id_to_rank,
     pickup_id_to_rank |-> pickup_id_to_rank,
     delivery_id_to_rank |-> delivery_id_to_rank,
     _locations |-> _locations, _locations_to_index |-> _locations_to_index,
     _matrices_used_index |-> _matrices_used_index, _profiles |-> _profiles,
     ex |-> NoException]

Store(S) ==
    /\ _no_addition_yet' = S._no_addition_yet
    /\ _has_skills' = S._has_skills
    /\ _has_custom_location_index' = S._has_custom_location_index
    /\ _has_TW' = S._has_TW
    /\ _homogeneous_locations' = S._homogeneous_locations
    /\ _homogeneous_profiles' = S._homogeneous_profiles
    /\ _has_jobs' = S._has_jobs
    /\ _has_shipments' = S._has_shipments
    /\ _max_matrices_used_index' = S._max_matrices_used_index
    /\ _all_locations_have_coords' = S._all_locations_have_coords
    /\ _geometry' = S._geometry
    /\ jobs' = S.jobs
    /\ vehicles' = S.vehicles
    /\ job_id_to_rank' = S.job_id_to_rank
    /\ pickup_id_to_rank' = S.pickup_id_to_rank
    /\ delivery_id_to_rank' = S.delivery_id_to_rank
    /\ _locations' = S._locations
    /\ _locations_to_index' = S._locations_to_index
    /\ _matrices_used_index' = S._matrices_used_index
    /\ _profiles' = S._profiles

\* throw Exception(ERROR::INPUT, msg): every exception of the ingestion code
\* is of kind INPUT.
Throw(S, msg) == [S EXCEPT !.ex = msg]

\* m[key] = value on a std::unordered_map
MapPut(m, key, value) ==
    [k \in DOMAIN m \cup {key} |-> IF k = key THEN value ELSE m[k]]

EmptyMap == [k \in {} |-> 0]


(***************************************************************************)
(* The location registry.                                                  *)
(***************************************************************************)
\* resolve_location without the lookup: every location is appended.
resolve_location_no_lookup(S, loc) ==
    LET new_index == Len(S._locations)
        stored == IF loc.user_index THEN loc
                  ELSE [loc EXCEPT !.index = new_index]
    IN  [S |-> [S EXCEPT !._locations = Append(@, stored),
                         !._locations_to_index =
                             MapPut(@, LocKey(loc), new_index)],
         loc |-> stored]

\* The registry code of check_job (the same code is repeated in add_vehicle
\* for the start and for the end location): the location with its index
\* resolved, and the registry after it.
resolve_location(S, loc) ==
    LET key == LocKey(loc)
        found == key \in DOMAIN S._locations_to_index
    IN  IF ~loc.user_index
        THEN IF found
             THEN [S |-> S,
                   loc |-> [loc EXCEPT !.index = S._locations_to_index[key]]]
             ELSE LET new_index == Len(S._locations)
                      stored == [loc EXCEPT !.index = new_index]
                  IN  [S |-> [S EXCEPT
                                !._locations = Append(@, stored),
                                !._locations_to_index =
                                    MapPut(@, key, new_index)],
                       loc |-> stored]
        ELSE IF ~found
             THEN [S |-> [S EXCEPT
                            !._locations = Append(@, loc),
                            !._locations_to_index =
                                MapPut(@, key, (Len(S._locations) + 1) - 1)],
                   loc |-> loc]
             ELSE [S |-> S, loc |-> loc]

\* The bookkeeping that follows each resolution.
use_index(S, loc) ==
    [S EXCEPT
       !._matrices_used_index = @ \cup {loc.index},
       !._max_matrices_used_index = Max(@, loc.index),
       !._all_locations_have_coords = @ /\ has_coordinates(loc)]

\* check_baseline without its else branch: nothing is compared with the
\* baseline.
check_baseline_unchecked(S, skills, has_location_index) ==
    IF S._no_addition_yet
    THEN [S EXCEPT !._has_skills = (skills # {}),
                   !._no_addition_yet = FALSE,
                   !._has_custom_location_index = has_location_index]
    ELSE S

\* Ensure that skills or location index are either always or never provided.
check_baseline(S, skills, has_location_index) ==
    IF S._no_addition_yet
    THEN [S EXCEPT !._has_skills = (skills # {}),
                   !._no_addition_yet = FALSE,
                   !._has_custom_location_index = has_location_index]
    ELSE IF S._has_skills # (skills # {})
         THEN Throw(S, "Missing skills.")
         ELSE IF S._has_custom_location_index # has_location_index
              THEN Throw(S, "Missing location index.")
              ELSE S

(***************************************************************************)
(* Ingestion of jobs and shipments.                                        *)
(***************************************************************************)
\* check_job without its test of the delivery length.
check_job_pickup_length_only(S) ==
    LET r == Len(S.jobs)
        job == S.jobs[r]
        has_location_index == job.location.user_index
    IN  IF Len(job.pickup) # _amount_size
        THEN Throw(S, "Inconsistent pickup length")
        ELSE
        LET S1 == check_baseline(S, job.skills, has_location_index)
        IN  IF S1.ex # NoException THEN S1
            ELSE
            LET S2 == [S1 EXCEPT !._has_TW =
                         @ \/ (Len(job.tws) # 1 \/ ~is_default(job.tws[1]))]
                res == resolve_location(S2, job.location)
                S3 == [res.S EXCEPT !.jobs[r].location = res.loc]
            IN  use_index(S3, res.loc)

\* check_job(jobs.back()): S.jobs is not empty.
check_job(S) ==
    LET r == Len(S.jobs)
        job == S.jobs[r]
        has_location_index == job.location.user_index
    IN  IF Len(job.delivery) # _amount_size
        THEN Throw(S, "Inconsistent delivery length")
        ELSE IF Len(job.pickup) # _amount_size
        THEN Throw(S, "Inconsistent pickup length")
        ELSE
        LET S1 == check_baseline(S, job.skills, has_location_index)
        IN  IF S1.ex # NoException THEN S1
            ELSE
            LET S2 == [S1 EXCEPT !._has_TW =
                         @ \/ (Len(job.tws) # 1 \/ ~is_default(job.tws[1]))]
                res == resolve_location(S2, job.location)
                S3 == [res.S EXCEPT !.jobs[r].location = res.loc]
            IN  use_index(S3, res.loc)

\* add_job without its test of the job type.
add_job_any_type(S, job) ==
    IF job.id \in DOMAIN S.job_id_to_rank
    THEN Throw(S, "Duplicate job id")
    ELSE
    LET S1 == [S EXCEPT !.job_id_to_rank = MapPut(@, job.id, Len(S.jobs)),
                        !.jobs = Append(@, job)]
        S2 == check_job(S1)
    IN  IF S2.ex # NoException THEN S2
        ELSE [S2 EXCEPT !._has_jobs = TRUE]

\* add_job with the job stored before its id is looked up.
add_job_append_first(S, job) ==
    LET S1 == [S EXCEPT !.jobs = Append(@, job)]
    IN  IF job.type # "SINGLE"
        THEN Throw(S1, "Wrong job type.")
        ELSE IF job.id \in DOMAIN S.job_id_to_rank
        THEN Throw(S1, "Duplicate job id")
        ELSE
        LET S2 == check_job([S1 EXCEPT !.job_id_to_rank =
                                          MapPut(@, job.id, Len(S.jobs))])
        IN  IF S2.ex # NoException THEN S2
            ELSE [S2 EXCEPT !._has_jobs = TRUE]

\* add_job without its lookup of the id.
add_job_no_duplicate_test(S, job) ==
    IF job.type # "SINGLE"
    THEN Throw(S, "Wrong job type.")
    ELSE
    LET S1 == [S EXCEPT !.job_id_to_rank = MapPut(@, job.id, Len(S.jobs)),
                        !.jobs = Append(@, job)]
        S2 == check_job(S1)
    IN  IF S2.ex # NoException THEN S2
        ELSE [S2 EXCEPT !._has_jobs = TRUE]

add_job(S, job) ==
    IF job.type # "SINGLE"
    THEN Throw(S, "Wrong job type.")
    ELSE IF job.id \in DOMAIN S.job_id_to_rank
    THEN Throw(S, "Duplicate job id")
    ELSE
    LET S1 == [S EXCEPT !.job_id_to_rank = MapPut(@, job.id, Len(S.jobs)),
                        !.jobs = Append(@, job)]
        S2 == check_job(S1)
    IN  IF S2.ex # NoException THEN S2
        ELSE [S2 EXCEPT !._has_jobs = TRUE]

\* The second half of add_shipment: the delivery.
add_shipment_delivery(S, delivery) ==
    IF delivery.type # "DELIVERY"
    THEN Throw(S, "Wrong delivery type.")
    ELSE IF delivery.id \in DOMAIN S.delivery_id_to_rank
    THEN Throw(S, "Duplicate delivery id")
    ELSE
    LET S1 == [S EXCEPT
                 !.delivery_id_to_rank = MapPut(@, delivery.id, Len(S.jobs)),
                 !.jobs = Append(@, delivery)]
        S2 == check_job(S1)
    IN  IF S2.ex # NoException THEN S2
        ELSE [S2 EXCEPT !._has_shipments = TRUE]

\* add_shipment without the loop that looks up each pickup skill in the
\* delivery's skills.
add_shipment_sizes_only(S, pickup, delivery) ==
    IF pickup.priority # delivery.priority
    THEN Throw(S, "Inconsistent shipment priority.")
    ELSE IF ~(pickup.pickup = delivery.delivery)
    THEN Throw(S, "Inconsistent shipment amount.")
    ELSE IF Cardinality(pickup.skills) # Cardinality(delivery.skills)
    THEN Throw(S, "Inconsistent shipment skills.")
    ELSE IF pickup.type # "PICKUP"
    THEN Throw(S, "Wrong pickup type.")
    ELSE IF pickup.id \in DOMAIN S.pickup_id_to_rank
    THEN Throw(S, "Duplicate pickup id")
    ELSE
    LET S1 == [S EXCEPT
                 !.pickup_id_to_rank = MapPut(@, pickup.id, Len(S.jobs)),
                 !.jobs = Append(@, pickup)]
        S2 == check_job(S1)
    IN  IF S2.ex # NoException THEN S2
        ELSE add_shipment_delivery(S2, delivery)

\* add_shipment without its test of the priorities.
add_shipment_any_priority(S, pickup, delivery) ==
    IF ~(pickup.pickup = delivery.delivery)
    THEN Throw(S, "Inconsistent shipment amount.")
    ELSE IF Cardinality(pickup.skills) # Cardinality(delivery.skills)
    THEN Throw(S, "Inconsistent shipment skills.")
    ELSE IF \E s \in pickup.skills : s \notin delivery.skills
    THEN Throw(S, "Inconsistent shipment skills.")
    ELSE IF pickup.type # "PICKUP"
    THEN Throw(S, "Wrong pickup type.")
    ELSE IF pickup.id \in DOMAIN S.pickup_id_to_rank
    THEN Throw(S, "Duplicate pickup id")
    ELSE
    LET S1 == [S EXCEPT
                 !.pickup_id_to_rank = MapPut(@, pickup.id, Len(S.jobs)),
                 !.jobs = Append(@, pickup)]
        S2 == check_job(S1)
    IN  IF S2.ex # NoException THEN S2
        ELSE add_shipment_delivery(S2, delivery)

add_shipment(S, pickup, delivery) ==
    IF pickup.priority # delivery.priority
    THEN Throw(S, "Inconsistent shipment priority.")
    ELSE IF ~(pickup.pickup = delivery.delivery)
    THEN Throw(S, "Inconsistent shipment amount.")
    ELSE IF Cardinality(pickup.skills) # Cardinality(delivery.skills)
    THEN Throw(S, "Inconsistent shipment skills.")
    ELSE IF \E s \in pickup.skills : s \notin delivery.skills
    THEN Throw(S, "Inconsistent shipment skills.")
    ELSE IF pickup.type # "PICKUP"
    THEN Throw(S, "Wrong pickup type.")
    ELSE IF pickup.id \in DOMAIN S.pickup_id_to_rank
    THEN Throw(S, "Duplicate pickup id")
    ELSE
    LET S1 == [S EXCEPT
                 !.pickup_id_to_rank = MapPut(@, pickup.id, Len(S.jobs)),
                 !.jobs = Append(@, pickup)]
        S2 == check_job(S1)
    IN  IF S2.ex # NoException THEN S2
        ELSE add_shipment_delivery(S2, delivery)

(***************************************************************************)
(* Ingestion of vehicles.                                                  *)
(***************************************************************************)
\* Vehicle::has_same_locations
has_same_locations(v, other) ==
    /\ v.has_start = other.has_start
    /\ v.has_end = other.has_end
    /\ v.has_start => LocKey(v.start) = LocKey(other.start)
    /\ v.has_end => LocKey(v.end) = LocKey(other.end)

\* Vehicle::has_same_profile
has_same_profile(v, other) == v.profile = other.profile

\* add_vehicle, the start location of vehicles.back(): the object after it
\* and the local has_location_index.
add_vehicle_start(S) ==
    LET n == Len(S.vehicles)
        current_v == S.vehicles[n]
    IN  IF current_v.has_start
        THEN LET res == resolve_location(S, current_v.start)
                 S1 == [res.S EXCEPT !.vehicles[n].start = res.loc]
             IN  [S |-> use_index(S1, res.loc),
                  has_location_index |-> current_v.start.user_index]
        ELSE [S |-> S, has_location_index |-> FALSE]

\* add_vehicle, the end location of vehicles.back().
add_vehicle_end(S, has_location_index) ==
    LET n == Len(S.vehicles)
        current_v == S.vehicles[n]
    IN  IF current_v.has_end
        THEN IF current_v.has_start
                  /\ has_location_index # current_v.end.user_index
             THEN [S |-> Throw(S, "Missing start_index or end_index."),
                   has_location_index |-> has_location_index]
             ELSE LET res == resolve_location(S, current_v.end)
                      S1 == [res.S EXCEPT !.vehicles[n].end = res.loc]
                  IN  [S |-> use_index(S1, res.loc),
                       has_location_index |-> current_v.end.user_index]
        ELSE [S |-> S, has_location_index |-> has_location_index]

\* add_vehicle_flags with each flag set to the last comparison alone.
add_vehicle_flags_last_only(S) ==
    LET n == Len(S.vehicles)
        S1 == IF n > 1
              THEN [S EXCEPT
                      !._homogeneous_locations =
                          has_same_locations(S.vehicles[1], S.vehicles[n]),
                      !._homogeneous_profiles =
                          has_same_profile(S.vehicles[1], S.vehicles[n])]
              ELSE S
    IN  [S1 EXCEPT !._profiles = @ \cup {S.vehicles[n].profile}]

\* add_vehicle, after the baseline check: the homogeneity flags and the
\* profile set.
add_vehicle_flags(S) ==
    LET n == Len(S.vehicles)
        S1 == IF n > 1
              THEN [S EXCEPT
                      !._homogeneous_locations =
                          @ /\ has_same_locations(S.vehicles[1], S.vehicles[n]),
                      !._homogeneous_profiles =
                          @ /\ has_same_profile(S.vehicles[1], S.vehicles[n])]
              ELSE S
    IN  [S1 EXCEPT !._profiles = @ \cup {S.vehicles[n].profile}]

add_vehicle(S, vehicle) ==
    LET S1 == [S EXCEPT !.vehicles = Append(@, vehicle)]
    IN  IF Len(vehicle.capacity) # _amount_size
        THEN Throw(S1, "Inconsistent capacity length")
        ELSE
        LET S2 == [S1 EXCEPT !._has_TW = @ \/ ~is_default(vehicle.tw)]
            st == add_vehicle_start(S2)
            en == add_vehicle_end(st.S, st.has_location_index)
        IN  IF en.S.ex # NoException THEN en.S
            ELSE
            LET S3 == check_baseline(en.S, vehicle.skills,
                                     en.has_location_index)
            IN  IF S3.ex # NoException THEN S3
                ELSE add_vehicle_flags(S3)


(***************************************************************************)
(* The compatibility passes of Input::solve.                               *)
(***************************************************************************)
\* Amount's operator<=: every component.
AmountLeq(a, b) == \A i \in DOMAIN a \cap DOMAIN b : a[i] <= b[i]

\* RawRoute::is_valid_addition_for_capacity on the empty route of a vehicle:
\* the pickup and the delivery each fit the capacity.
is_valid_addition_for_capacity(vehicle, pickup, delivery) ==
    AmountLeq(delivery, vehicle.capacity) /\ AmountLeq(pickup, vehicle.capacity)

\* The earliest time in window tw that is not before `earliest`, or NoIndex.
EarliestIn(tws, earliest) ==
    LET ok == {i \in DOMAIN tws : earliest <= tws[i].end}
    IN  IF ok = {} THEN NoIndex
        ELSE LET i == CHOOSE k \in ok : \A m \in ok : k <= m
             IN  Max(earliest, tws[i].start)

\* TWRoute::is_valid_addition_for_tw for one job on the empty route of a
\* vehicle (travel times left out): some window of the job can be met
\* within the vehicle's working hours.
is_valid_addition_for_tw(vehicle, job) ==
    LET t == EarliestIn(job.tws, vehicle.tw.start)
    IN  t # NoIndex /\ t <= vehicle.tw.end

\* TWRoute::is_valid_addition_for_tw for a pickup followed by its delivery.
is_valid_addition_for_tw_range(vehicle, pickup, delivery) ==
    LET t1 == EarliestIn(pickup.tws, vehicle.tw.start)
        t2 == IF t1 = NoIndex THEN NoIndex ELSE EarliestIn(delivery.tws, t1)
    IN  t2 # NoIndex /\ t2 <= vehicle.tw.end

\* The row of vehicle v with the test the other way round: the skills of
\* the vehicle looked up in those of the job.
skills_row_vehicle_in_job(S, v) ==
    [j \in 1..Len(S.jobs) |->
        IF S._has_skills
        THEN \A s \in S.vehicles[v].skills : s \in S.jobs[j].skills
        ELSE TRUE]


\* The row of vehicle v after the skills pass.
skills_row(S, v) ==
    [j \in 1..Len(S.jobs) |->
        IF S._has_skills
        THEN \A s \in S.jobs[j].skills : s \in S.vehicles[v].skills
        ELSE TRUE]

\* The assertions of set_skills_compatibility that do not hold.
skills_asserts(S) ==
    IF S._has_skills
    THEN (IF \E v \in 1..Len(S.vehicles) : S.vehicles[v].skills = {}
          THEN {"!v_skills.empty()"} ELSE {})
         \cup
         (IF S.vehicles # <<>>
             /\ \E j \in 1..Len(S.jobs) : S.jobs[j].skills = {}
          THEN {"!jobs[j].skills.empty()"} ELSE {})
    ELSE {}

set_skills_compatibility(S) ==
    [v \in 1..Len(S.vehicles) |-> skills_row(S, v)]

\* The loop on j without the write of the delivery's entry.
RECURSIVE extra_row_pickup_only(_, _, _, _)
extra_row_pickup_only(S, v, j, R) ==
    IF j > Len(S.jobs) THEN R
    ELSE IF ~R.row[j] THEN extra_row_pickup_only(S, v, j + 1, R)
    ELSE
    LET job == S.jobs[j]
        fits == is_valid_addition_for_capacity(S.vehicles[v], job.pickup,
                                               job.delivery)
        is_shipment_pickup == (job.type = "PICKUP")
        check_tw == fits /\ S._has_TW
        asserts == IF check_tw /\ job.type # "SINGLE" /\ ~is_shipment_pickup
                   THEN {"is_shipment_pickup"} ELSE {}
        past == (check_tw /\ job.type # "SINGLE" /\ j + 1 > Len(S.jobs))
                \/ (is_shipment_pickup /\ j + 1 > Len(S.jobs))
        is_compatible ==
            IF ~check_tw THEN fits
            ELSE IF job.type = "SINGLE"
            THEN is_valid_addition_for_tw(S.vehicles[v], job)
            ELSE IF j + 1 > Len(S.jobs) THEN FALSE
            ELSE is_valid_addition_for_tw_range(S.vehicles[v], job,
                                                S.jobs[j + 1])
        row1 == [R.row EXCEPT ![j] = is_compatible]
        row2 == row1
        R2 == [row |-> row2, asserts |-> R.asserts \cup asserts,
               out_of_range |-> R.out_of_range \/ past]
    IN  extra_row_pickup_only(S, v,
                              IF is_shipment_pickup THEN j + 2 ELSE j + 1, R2)


\* The loop on j going on to the delivery after its pickup.
RECURSIVE extra_row_no_skip(_, _, _, _)
extra_row_no_skip(S, v, j, R) ==
    IF j > Len(S.jobs) THEN R
    ELSE IF ~R.row[j] THEN extra_row_no_skip(S, v, j + 1, R)
    ELSE
    LET job == S.jobs[j]
        fits == is_valid_addition_for_capacity(S.vehicles[v], job.pickup,
                                               job.delivery)
        is_shipment_pickup == (job.type = "PICKUP")
        check_tw == fits /\ S._has_TW
        asserts == IF check_tw /\ job.type # "SINGLE" /\ ~is_shipment_pickup
                   THEN {"is_shipment_pickup"} ELSE {}
        past == (check_tw /\ job.type # "SINGLE" /\ j + 1 > Len(S.jobs))
                \/ (is_shipment_pickup /\ j + 1 > Len(S.jobs))
        is_compatible ==
            IF ~check_tw THEN fits
            ELSE IF job.type = "SINGLE"
            THEN is_valid_addition_for_tw(S.vehicles[v], job)
            ELSE IF j + 1 > Len(S.jobs) THEN FALSE
            ELSE is_valid_addition_for_tw_range(S.vehicles[v], job,
                                                S.jobs[j + 1])
        row1 == [R.row EXCEPT ![j] = is_compatible]
        row2 == IF is_shipment_pickup /\ j + 1 <= Len(S.jobs)
                THEN [row1 EXCEPT ![j + 1] = is_compatible]
                ELSE row1
        R2 == [row |-> row2, asserts |-> R.asserts \cup asserts,
               out_of_range |-> R.out_of_range \/ past]
    IN  extra_row_no_skip(S, v, j + 1, R2)


\* The loop on j of set_extra_compatibility for vehicle v, from job j (a
\* position of the sequence, rank j - 1) on row `row`: the row when the loop
\* ends, the assertions found false, and whether column j + 1 was written
\* past the end of the row.
RECURSIVE extra_row(_, _, _, _)
extra_row(S, v, j, R) ==
    IF j > Len(S.jobs) THEN R
    ELSE IF ~R.row[j] THEN extra_row(S, v, j + 1, R)
    ELSE
    LET job == S.jobs[j]
        fits == is_valid_addition_for_capacity(S.vehicles[v], job.pickup,
                                               job.delivery)
        is_shipment_pickup == (job.type = "PICKUP")
        check_tw == fits /\ S._has_TW
        asserts == IF check_tw /\ job.type # "SINGLE" /\ ~is_shipment_pickup
                   THEN {"is_shipment_pickup"} ELSE {}
        past == (check_tw /\ job.type # "SINGLE" /\ j + 1 > Len(S.jobs))
                \/ (is_shipment_pickup /\ j + 1 > Len(S.jobs))
        is_compatible ==
            IF ~check_tw THEN fits
            ELSE IF job.type = "SINGLE"
            THEN is_valid_addition_for_tw(S.vehicles[v], job)
            ELSE IF j + 1 > Len(S.jobs) THEN FALSE
            ELSE is_valid_addition_for_tw_range(S.vehicles[v], job,
                                                S.jobs[j + 1])
        row1 == [R.row EXCEPT ![j] = is_compatible]
        row2 == IF is_shipment_pickup /\ j + 1 <= Len(S.jobs)
                THEN [row1 EXCEPT ![j + 1] = is_compatible]
                ELSE row1
        R2 == [row |-> row2, asserts |-> R.asserts \cup asserts,
               out_of_range |-> R.out_of_range \/ past]
    IN  extra_row(S, v, IF is_shipment_pickup THEN j + 2 ELSE j + 1, R2)

extra_result(S, v2j, v) ==
    extra_row(S, v, 1, [row |-> v2j[v], asserts |-> {}, out_of_range |-> FALSE])

set_extra_compatibility(S, v2j) ==
    [v \in 1..Len(S.vehicles) |-> extra_result(S, v2j, v).row]

\* share_a_job met by two different jobs, one for each vehicle.
share_a_job_one_each(v2j, v1, v2) ==
    /\ \E j \in DOMAIN v2j[v1] : v2j[v1][j]
    /\ \E j \in DOMAIN v2j[v2] : v2j[v2][j]

\* Whether the loop on j of set_vehicles_compatibility finds a job that is
\* compatible with both vehicles.
share_a_job(v2j, v1, v2) ==
    \E j \in DOMAIN v2j[v1] : v2j[v1][j] /\ v2j[v2][j]

\* set_vehicles_compatibility without the write of [v2][v1].
set_vehicles_compatibility_one_way(S, v2j) ==
    [a \in 1..Len(S.vehicles) |->
        [b \in 1..Len(S.vehicles) |->
            a = b \/ (a < b /\ share_a_job(v2j, a, b))]]

\* The cell [a][b] of the vehicle x vehicle matrix is written true as
\* [v1][v1], as [v1][v2] with v1 < v2, and as [v2][v1] with v1 < v2.
set_vehicles_compatibility(S, v2j) ==
    [a \in 1..Len(S.vehicles) |->
        [b \in 1..Len(S.vehicles) |->
            \/ a = b
            \/ a < b /\ share_a_job(v2j, a, b)
            \/ b < a /\ share_a_job(v2j, b, a)]]

\* Input::vehicle_ok_with_vehicle, on ranks.
vehicle_ok_with_vehicle(v1_index, v2_index) ==
    _vehicle_to_vehicle_compatibility[v1_index + 1][v2_index + 1]

(***************************************************************************)
(* The cost bound.  A matrix is a sequence of rows; Cost is an unsigned    *)
(* integer type whose largest value is CostMax.                            *)
(***************************************************************************)
\* std::numeric_limits<Cost>::max(), scaled down
CostMax == 7

\* the exception of add_without_overflow, in flight in place of a Cost
Overflowed == 0 - 1

NotComputed == [overflow |-> FALSE, bound |-> 0, cells |-> {}, done |-> FALSE]

\* m[i][j] on ranks
Cell(m, i, j) == m[i + 1][j + 1]

MaxOf(costs) == IF costs = {} THEN 0 ELSE CHOOSE c \in costs : \A d \in costs : d <= c

\* utils::add_without_overflow: throws rather than wraps.
add_without_overflow(a, b) ==
    IF a = Overflowed \/ b = Overflowed THEN Overflowed
    ELSE IF a > CostMax - b THEN Overflowed
    ELSE a + b

\* The loops that fill max_cost_per_line and max_cost_per_column: the
\* matrix cells they read.
cells_read(S, m) == S._matrices_used_index \X S._matrices_used_index

max_cost_per_line(S, m) ==
    [i \in 0..(Len(m) - 1) |->
        IF i \in S._matrices_used_index
        THEN MaxOf({Cell(m, c[1], c[2]) : c \in {d \in cells_read(S, m) : d[1] = i}})
        ELSE 0]

max_cost_per_column(S, m) ==
    [j \in 0..(Len(m) - 1) |->
        IF j \in S._matrices_used_index
        THEN MaxOf({Cell(m, c[1], c[2]) : c \in {d \in cells_read(S, m) : d[2] = j}})
        ELSE 0]

\* acc, then costs[k], costs[k + 1], ... added one by one.
RECURSIVE add_each(_, _, _)
add_each(costs, k, acc) ==
    IF k > Len(costs) THEN acc
    ELSE add_each(costs, k + 1, add_without_overflow(acc, costs[k]))

jobs_departure_bound(S, m) ==
    add_each([j \in 1..Len(S.jobs) |->
                 max_cost_per_line(S, m)[S.jobs[j].location.index]], 1, 0)

jobs_arrival_bound(S, m) ==
    add_each([j \in 1..Len(S.jobs) |->
                 max_cost_per_column(S, m)[S.jobs[j].location.index]], 1, 0)

start_bound(S, m) ==
    add_each([v \in 1..Len(S.vehicles) |->
                 IF S.vehicles[v].has_start
                 THEN max_cost_per_line(S, m)[S.vehicles[v].start.index]
                 ELSE 0], 1, 0)

end_bound(S, m) ==
    add_each([v \in 1..Len(S.vehicles) |->
                 IF S.vehicles[v].has_end
                 THEN max_cost_per_column(S, m)[S.vehicles[v].end.index]
                 ELSE 0], 1, 0)

\* The result of a call from its sums.
bound_result(S, m, sums, bound) ==
    [overflow |-> Overflowed \in (sums \cup {bound}),
     bound |-> bound, cells |-> cells_read(S, m), done |-> TRUE]

\* check_cost_bound without its last addition.
check_cost_bound_without_end(S, m) ==
    LET departure == jobs_departure_bound(S, m)
        arrival == jobs_arrival_bound(S, m)
        jobs_bound == Max(departure, arrival)
        starts == start_bound(S, m)
        ends == end_bound(S, m)
    IN  bound_result(S, m, {departure, arrival, starts, ends},
                     add_without_overflow(starts, jobs_bound))

\* check_cost_bound(matrix): whether it threw, the last value of its local
\* `bound`, and the cells of the matrix it read.
check_cost_bound(S, m) ==
    LET departure == jobs_departure_bound(S, m)
        arrival == jobs_arrival_bound(S, m)
        jobs_bound == Max(departure, arrival)
        starts == start_bound(S, m)
        ends == end_bound(S, m)
    IN  bound_result(S, m, {departure, arrival, starts, ends},
                     add_without_overflow(
                         add_without_overflow(starts, jobs_bound), ends))

(***************************************************************************)
(* Matrices by profile.  An exception_ptr is the exception with the thread *)
(* that threw it; thread 0 is the caller of set_matrices.                  *)
(***************************************************************************)
Profiles == {"car", "bike", "foot"}

NullPtr == [by |-> 0, ex |-> NoException]

NullWrapper == "null"

InvalidProfile(profile) ==
    CASE profile = "car" -> "Invalid profile: car."
      [] profile = "bike" -> "Invalid profile: bike."
      [] OTHER -> "Invalid profile: foot."

MatrixTooSmall(profile) ==
    CASE profile = "car" ->
             "location_index exceeding matrix size for car profile."
      [] profile = "bike" ->
             "location_index exceeding matrix size for bike profile."
      [] OTHER -> "location_index exceeding matrix size for foot profile."

\* The exception of a routing backend whose get_matrix fails.
RoutingFailure(profile) ==
    CASE profile = "car" -> "ROUTING: car"
      [] profile = "bike" -> "ROUTING: bike"
      [] OTHER -> "ROUTING: foot"

\* The exception of add_without_overflow.
CostOverflow == "cost overflow"

ConstMatrix(n, c) == [i \in 1..n |-> [j \in 1..n |-> c]]

\* std::unordered_map::emplace: no effect on a key already there.
emplace(m, key, value) == IF key \in DOMAIN m THEN m ELSE MapPut(m, key, value)

\* add_routing_wrapper(profile) with _router one of the http routers.
add_routing_wrapper(wrappers, profile) ==
    [asserts |-> IF \E i \in DOMAIN wrappers : wrappers[i] = profile
                 THEN {"no routing wrapper for the profile yet"} ELSE {},
     wrappers |-> IF profile \in _servers THEN Append(wrappers, profile)
                  ELSE Append(wrappers, NullWrapper),
     ex |-> IF profile \in _servers THEN NoException
            ELSE InvalidProfile(profile)]

\* The orders in which a loop can go through an unordered set.
Orders(S) ==
    {order \in [1..Cardinality(S) -> S] :
        \A x \in S : \E i \in DOMAIN order : order[i] = x}

\* Every profile in every bucket.
every_bucket(order, nb_buckets) == [t \in 1..nb_buckets |-> order]

\* thread_profiles[t_rank % nb_buckets].push_back(profile) over the
\* profiles in iteration order.
round_robin(order, nb_buckets) ==
    [t \in 1..nb_buckets |->
        LET ranks == {r \in 0..(Len(order) - 1) : r % nb_buckets = t - 1}
        IN  [k \in 1..Cardinality(ranks) |->
                order[(k - 1) * nb_buckets + t]]]

\* The rest of the loop on _profiles from position k: wrappers and
\* placeholders for the profiles without a custom matrix.
RECURSIVE bucket_loop(_, _, _)
bucket_loop(order, k, R) ==
    IF k > Len(order) \/ R.ex # NoException THEN R
    ELSE IF order[k] \in _custom_matrices THEN bucket_loop(order, k + 1, R)
    ELSE LET W == add_routing_wrapper(R.wrappers, order[k])
         IN  IF W.ex # NoException
             THEN [R EXCEPT !.wrappers = W.wrappers,
                            !.asserts = @ \cup W.asserts, !.ex = W.ex]
             ELSE bucket_loop(order, k + 1,
                      [wrappers |-> W.wrappers,
                       matrices |-> emplace(R.matrices, order[k], <<>>),
                       asserts |-> R.asserts \cup W.asserts \cup
                           (IF order[k] \in DOMAIN R.matrices
                            THEN {"no matrix for the profile yet"} ELSE {}),
                       ex |-> NoException])

\* full_m filled by position in _locations, without the indirection.
full_m_by_position(m) ==
    LET n == _max_matrices_used_index + 1
    IN  [a \in 1..n |-> [b \in 1..n |->
            IF a <= Len(m) /\ b <= Len(m) THEN m[a][b] ELSE 0]]

\* Matrix<Cost> full_m(_max_matrices_used_index + 1) filled from the
\* backend's matrix m through the indices of _locations.
full_m(m) ==
    LET n == _max_matrices_used_index + 1
        L == 1..Len(_locations)
    IN  [a \in 1..n |-> [b \in 1..n |->
            LET hits == {h \in L \X L : /\ _locations[h[1]].index = a - 1
                                        /\ _locations[h[2]].index = b - 1}
            IN  IF hits = {} THEN 0
                ELSE LET h == CHOOSE h \in hits : TRUE IN m[h[1]][h[2]]]]

(***************************************************************************)
(* The calls of a behaviour: a call runs its handler to its return or to   *)
(* its throw, and the object keeps whatever the handler had written.       *)
(***************************************************************************)
NoCall == [op |-> "none", args |-> <<>>, ex |-> NoException]

Returned(S, op, args) ==
    /\ Store(S)
    /\ call' = [op |-> op, args |-> args, ex |-> S.ex]
    /\ ncalls' = ncalls + 1
    /\ thrown' = (thrown \/ S.ex # NoException)
    /\ UNCHANGED <<solveVars, boundVars, matVars>>

AddJob(job) == Returned(add_job(Self, job), "add_job", <<job>>)

AddShipment(pickup, delivery) ==
    Returned(add_shipment(Self, pickup, delivery), "add_shipment",
             <<pickup, delivery>>)

AddVehicle(vehicle) ==
    Returned(add_vehicle(Self, vehicle), "add_vehicle", <<vehicle>>)

\* The object after Input::Input. _has_skills and _has_custom_location_index
\* are not initialised by the constructor: they hold any value until the
\* first addition sets them.
InitInput ==
    /\ _no_addition_yet = TRUE
    /\ _has_skills \in BOOLEAN
    /\ _has_custom_location_index \in BOOLEAN
    /\ _has_TW = FALSE
    /\ _homogeneous_locations = TRUE
    /\ _homogeneous_profiles = TRUE
    /\ _has_jobs = FALSE
    /\ _has_shipments = FALSE
    /\ _max_matrices_used_index = 0
    /\ _all_locations_have_coords = TRUE
    /\ _geometry = FALSE
    /\ jobs = <<>>
    /\ vehicles = <<>>
    /\ job_id_to_rank = EmptyMap
    /\ pickup_id_to_rank = EmptyMap
    /\ delivery_id_to_rank = EmptyMap
    /\ _locations = <<>>
    /\ _locations_to_index = EmptyMap
    /\ _matrices_used_index = {}
    /\ _profiles = {}
    /\ call = NoCall
    /\ ncalls = 0
    /\ thrown = FALSE
    /\ _vehicle_to_job_compatibility = <<>>
    /\ _vehicle_to_vehicle_compatibility = <<>>
    /\ pc = "loading"
    /\ failed_asserts = {}
    /\ out_of_range = FALSE
    /\ matrix = <<>>
    /\ cost_bound = NotComputed
    /\ _routing_wrappers = <<>>
    /\ _custom_matrices = {}
    /\ _matrices = EmptyMap
    /\ thread_profiles = <<>>
    /\ ep = NullPtr
    /\ ep_m = 0
    /\ main = [pc |-> "idle", k |-> 0]
    /\ worker = <<>>
    /\ captured = <<>>
    /\ writers = EmptyMap
    /\ raised = NullPtr

(***************************************************************************)
(* Spec: any MaxAdds ingestion calls, valid and invalid, in any order.     *)
(***************************************************************************)
SingleJob(id, loc, skills) ==
    Job(id, "SINGLE", loc, <<1>>, <<0>>, skills, <<DefaultTW>>, 0)
PickupJob(id, loc, skills, amount, priority) ==
    Job(id, "PICKUP", loc, <<0>>, amount, skills, <<DefaultTW>>, priority)
DeliveryJob(id, loc, skills, amount, priority) ==
    Job(id, "DELIVERY", loc, amount, <<0>>, skills, <<DefaultTW>>, priority)
StartVehicle(id, start, skills, profile) ==
    Vehicle(id, TRUE, start, FALSE, NoLoc, <<1>>, skills, DefaultTW, profile)
StartEndVehicle(id, start, end, skills, profile) ==
    Vehicle(id, TRUE, start, TRUE, end, <<1>>, skills, DefaultTW, profile)

Jobs ==
    { SingleJob(1, CoordLoc("A"), {}), SingleJob(2, CoordLoc("A"), {}),
      SingleJob(2, CoordLoc("B"), {}), SingleJob(1, IndexLoc(0), {}),
      SingleJob(2, IndexLoc(2), {}), SingleJob(2, CoordLoc("A"), {1}),
      \* a delivery of the wrong length, and a job of the wrong type
      Job(2, "SINGLE", CoordLoc("B"), <<1, 1>>, <<0>>, {}, <<DefaultTW>>, 0),
      PickupJob(2, CoordLoc("B"), {}, <<1>>, 0) }

Shipments ==
    { <<PickupJob(1, CoordLoc("A"), {}, <<1>>, 0),
        DeliveryJob(1, CoordLoc("B"), {}, <<1>>, 0)>>,
      <<PickupJob(1, IndexLoc(2), {}, <<1>>, 0),
        DeliveryJob(1, IndexLoc(0), {}, <<1>>, 0)>>,
      \* a new pickup with the delivery id of the first shipment
      <<PickupJob(2, CoordLoc("A"), {}, <<1>>, 0),
        DeliveryJob(1, CoordLoc("B"), {}, <<1>>, 0)>>,
      \* a pickup by coordinates with a delivery by index
      <<PickupJob(2, CoordLoc("A"), {}, <<1>>, 0),
        DeliveryJob(2, IndexLoc(0), {}, <<1>>, 0)>>,
      \* skills {1} on the pickup, none on the delivery
      <<PickupJob(2, CoordLoc("A"), {1}, <<1>>, 0),
        DeliveryJob(2, CoordLoc("A"), {}, <<1>>, 0)>>,
      \* two deliveries
      <<DeliveryJob(2, CoordLoc("A"), {}, <<1>>, 0),
        DeliveryJob(2, CoordLoc("B"), {}, <<1>>, 0)>>,
      \* two pickups
      <<PickupJob(2, CoordLoc("A"), {}, <<1>>, 0),
        PickupJob(2, CoordLoc("B"), {}, <<1>>, 0)>>,
      \* priorities 0 and 1
      <<PickupJob(2, CoordLoc("A"), {}, <<1>>, 0),
        DeliveryJob(2, CoordLoc("B"), {}, <<1>>, 1)>>,
      \* amounts 1 and 2
      <<PickupJob(2, CoordLoc("A"), {}, <<1>>, 0),
        DeliveryJob(2, CoordLoc("B"), {}, <<2>>, 0)>>,
      \* skills {1} and {2}
      <<PickupJob(2, CoordLoc("A"), {1}, <<1>>, 0),
        DeliveryJob(2, CoordLoc("B"), {2}, <<1>>, 0)>>,
      \* amounts of the wrong length
      <<PickupJob(2, CoordLoc("A"), {}, <<1, 1>>, 0),
        DeliveryJob(2, CoordLoc("B"), {}, <<1, 1>>, 0)>> }

Vehicles ==
    { StartVehicle(1, CoordLoc("B"), {}, "car"),
      StartEndVehicle(2, CoordLoc("B"), CoordLoc("A"), {}, "bike"),
      StartEndVehicle(1, IndexLoc(0), IndexLoc(0), {}, "car"),
      \* a start by coordinates with an end by index
      StartEndVehicle(2, CoordLoc("A"), IndexLoc(2), {}, "car"),
      StartVehicle(2, CoordLoc("A"), {1}, "car"),
      \* a capacity of the wrong length
      Vehicle(2, TRUE, CoordLoc("B"), FALSE, NoLoc, <<1, 1>>, {}, DefaultTW,
              "car") }

Init == InitInput /\ _servers = Profiles

Next ==
    \/ ncalls < MaxAdds /\ \E job \in Jobs : AddJob(job)
    \/ ncalls < MaxAdds /\ \E sh \in Shipments : AddShipment(sh[1], sh[2])
    \/ ncalls < MaxAdds /\ \E vehicle \in Vehicles : AddVehicle(vehicle)

Spec == Init /\ [][Next]_vars


(***************************************************************************)
(* The passes of Input::solve, in its order.                               *)
(***************************************************************************)
SetSkillsCompatibility ==
    /\ pc = "loading"
    /\ _vehicle_to_job_compatibility' = set_skills_compatibility(Self)
    /\ failed_asserts' = failed_asserts \cup skills_asserts(Self)
    /\ pc' = "skills"
    /\ UNCHANGED <<inputVars, _vehicle_to_vehicle_compatibility, out_of_range,
                   boundVars, matVars, call, ncalls, thrown>>

SetExtraCompatibility ==
    /\ pc = "skills"
    /\ _vehicle_to_job_compatibility' =
           set_extra_compatibility(Self, _vehicle_to_job_compatibility)
    /\ failed_asserts' = failed_asserts \cup
           UNION {extra_result(Self, _vehicle_to_job_compatibility, v).asserts :
                    v \in 1..Len(vehicles)}
    /\ out_of_range' = (out_of_range \/
           \E v \in 1..Len(vehicles) :
              extra_result(Self, _vehicle_to_job_compatibility, v).out_of_range)
    /\ pc' = "extra"
    /\ UNCHANGED <<inputVars, _vehicle_to_vehicle_compatibility,
                   boundVars, matVars, call, ncalls, thrown>>

SetVehiclesCompatibility ==
    /\ pc = "extra"
    /\ _vehicle_to_vehicle_compatibility' =
           set_vehicles_compatibility(Self, _vehicle_to_job_compatibility)
    /\ pc' = "solved"
    /\ UNCHANGED <<inputVars, _vehicle_to_job_compatibility, failed_asserts,
                   out_of_range, boundVars, matVars, call, ncalls, thrown>>

(***************************************************************************)
(* SpecCompat: MaxCompatAdds ingestion calls on an instance with skills,   *)
(* capacities and time windows, then the three compatibility passes.       *)
(***************************************************************************)
MaxCompatAdds == 4

CJob(id, coords, skills, amount, tw) ==
    Job(id, "SINGLE", CoordLoc(coords), amount, <<0>>, skills, <<tw>>, 0)
CPickup(id, coords, skills, amount, tw) ==
    Job(id, "PICKUP", CoordLoc(coords), <<0>>, amount, skills, <<tw>>, 0)
CDelivery(id, coords, skills, amount, tw) ==
    Job(id, "DELIVERY", CoordLoc(coords), amount, <<0>>, skills, <<tw>>, 0)
CVehicle(id, coords, skills, capacity, tw) ==
    Vehicle(id, TRUE, CoordLoc(coords), FALSE, NoLoc, capacity, skills, tw,
            "car")

CompatJobs ==
    { CJob(1, "A", {1}, <<1>>, DefaultTW),
      CJob(2, "B", {2}, <<2>>, DefaultTW),
      CJob(3, "A", {1}, <<1>>, LateTW),
      CJob(4, "B", {}, <<2>>, DefaultTW),
      CJob(5, "A", {2}, <<2>>, DefaultTW) }

CompatShipments ==
    { <<CPickup(1, "A", {1}, <<1>>, DefaultTW),
        CDelivery(1, "B", {1}, <<1>>, DefaultTW)>>,
      <<CPickup(2, "B", {2}, <<2>>, LateTW),
        CDelivery(2, "A", {2}, <<2>>, EarlyTW)>>,
      <<CPickup(3, "A", {}, <<1>>, DefaultTW),
        CDelivery(3, "A", {}, <<1>>, DefaultTW)>>,
      \* a new pickup with the delivery id of the first shipment
      <<CPickup(4, "A", {1}, <<1>>, DefaultTW),
        CDelivery(1, "B", {1}, <<1>>, DefaultTW)>>,
      \* as many skills on the delivery as on the pickup, but not the same
      <<CPickup(5, "A", {1}, <<1>>, DefaultTW),
        CDelivery(5, "B", {2}, <<1>>, DefaultTW)>> }

CompatVehicles ==
    { CVehicle(1, "A", {1}, <<1>>, DefaultTW),
      CVehicle(2, "B", {1, 2}, <<2>>, DefaultTW),
      CVehicle(3, "A", {2}, <<1>>, EarlyTW),
      CVehicle(4, "B", {}, <<2>>, DefaultTW),
      CVehicle(5, "B", {2}, <<1>>, DefaultTW) }

InitCompat == InitInput /\ _servers = Profiles

Loading == pc = "loading" /\ ncalls < MaxCompatAdds

NextCompat ==
    \/ Loading /\ \E job \in CompatJobs : AddJob(job)
    \/ Loading /\ \E sh \in CompatShipments : AddShipment(sh[1], sh[2])
    \/ Loading /\ \E vehicle \in CompatVehicles : AddVehicle(vehicle)
    \/ SetSkillsCompatibility
    \/ SetExtraCompatibility
    \/ SetVehiclesCompatibility

SpecCompat == InitCompat /\ [][NextCompat]_vars


(***************************************************************************)
(* Properties of the ingestion calls.                                      *)
(***************************************************************************)
IsPrefix(s, t) == Len(s) <= Len(t) /\ \A i \in 1..Len(s) : t[i] = s[i]
Extends(m, n) == DOMAIN m \subseteq DOMAIN n /\ \A k \in DOMAIN m : n[k] = m[k]

\* The locations an ingestion call was given.
CallLocations(c) ==
    IF c.op = "add_vehicle"
    THEN (IF c.args[1].has_start THEN {c.args[1].start} ELSE {})
         \cup (IF c.args[1].has_end THEN {c.args[1].end} ELSE {})
    ELSE {c.args[i].location : i \in DOMAIN c.args}

\* Whether the entity of call c differs from the baseline (skills, index)
\* in the presence of skills or of a user-supplied location index.
DiffersFromBaseline(c, skills, index) ==
    \/ \E i \in DOMAIN c.args : (c.args[i].skills # {}) # skills
    \/ \E loc \in CallLocations(c) : loc.user_index # index

\* C1: once an addition has set the baseline (_no_addition_yet is false),
\* no call changes _has_skills or _has_custom_location_index, and every
\* addition whose skills presence or location-index presence differs from
\* the baseline throws (every exception of the ingestion code is INPUT).
C1_BaselineIsSticky ==
    [][ ~_no_addition_yet =>
          /\ _has_skills' = _has_skills
          /\ _has_custom_location_index' = _has_custom_location_index
          /\ ~_no_addition_yet'
          /\ DiffersFromBaseline(call', _has_skills,
                                 _has_custom_location_index)
               => call'.ex # NoException ]_vars

\* A job with skills is refused by an instance whose baseline, set two
\* calls earlier, is "no skills".
C1_Witness ==
    /\ call.op = "add_job"
    /\ call.ex = "Missing skills."
    /\ ~_no_addition_yet /\ ~_has_skills
    /\ ncalls = 3

TrackedUnchanged ==
    UNCHANGED <<jobs, vehicles, job_id_to_rank, pickup_id_to_rank,
                delivery_id_to_rank, _locations, _locations_to_index,
                _matrices_used_index, _max_matrices_used_index>>

\* C4 as stated: a call that throws leaves the job list, the vehicle list,
\* the three id->rank tables, the location registry, the referenced-index
\* set and the maximum used index as they were.
C4_NoPartialChange ==
    [][ call'.ex # NoException => TrackedUnchanged ]_vars

\* The throws that come before the handler's first write.
ThrownBeforeAppend ==
    { "Wrong job type.", "Duplicate job id",
      "Inconsistent shipment priority.", "Inconsistent shipment amount.",
      "Inconsistent shipment skills.", "Wrong pickup type.",
      "Duplicate pickup id" }

\* C4 amended: a call that throws before its first append changes nothing;
\* a call that throws later keeps what it wrote before the throw and only
\* appends: add_job leaves exactly the job and its id->rank entry, with the
\* registry untouched; add_shipment leaves the pickup, and the delivery too
\* when it is the delivery's check_job that throws; add_vehicle always leaves
\* the vehicle. What was stored before the call is never altered.
C4_FailureOnlyAppends ==
    [][ call'.ex # NoException =>
          /\ call'.ex \in ThrownBeforeAppend => TrackedUnchanged
          /\ IsPrefix(jobs, jobs') /\ IsPrefix(vehicles, vehicles')
          /\ IsPrefix(_locations, _locations')
          /\ Extends(job_id_to_rank, job_id_to_rank')
          /\ Extends(pickup_id_to_rank, pickup_id_to_rank')
          /\ Extends(delivery_id_to_rank, delivery_id_to_rank')
          /\ Extends(_locations_to_index, _locations_to_index')
          /\ _matrices_used_index \subseteq _matrices_used_index'
          /\ _max_matrices_used_index <= _max_matrices_used_index'
          /\ (call'.op = "add_job" /\ call'.ex \notin ThrownBeforeAppend) =>
                /\ jobs' = Append(jobs, call'.args[1])
                /\ job_id_to_rank' =
                       MapPut(job_id_to_rank, call'.args[1].id, Len(jobs))
                /\ UNCHANGED <<vehicles, pickup_id_to_rank,
                               delivery_id_to_rank, _locations,
                               _locations_to_index, _matrices_used_index,
                               _max_matrices_used_index>>
          /\ (call'.op = "add_shipment" /\ call'.ex \notin ThrownBeforeAppend)
                => /\ Len(jobs') \in {Len(jobs) + 1, Len(jobs) + 2}
                   /\ jobs'[Len(jobs) + 1].id = call'.args[1].id
                   /\ pickup_id_to_rank' =
                          MapPut(pickup_id_to_rank, call'.args[1].id, Len(jobs))
                   /\ UNCHANGED <<vehicles, job_id_to_rank>>
          /\ call'.op = "add_vehicle" =>
                /\ Len(vehicles') = Len(vehicles) + 1
                /\ vehicles'[Len(vehicles')].id = call'.args[1].id
                /\ UNCHANGED <<jobs, job_id_to_rank, pickup_id_to_rank,
                               delivery_id_to_rank>> ]_vars

\* An add_job that threw in check_job after two other jobs were stored: the
\* refused job is the third of the job list.
C4_Witness ==
    /\ call.op = "add_job"
    /\ call.ex = "Missing skills."
    /\ Len(jobs) = 3
    /\ jobs[3].id = call.args[1].id


\* The locations stored with the jobs and the vehicles.
StoredLocations ==
    {jobs[r].location : r \in 1..Len(jobs)}
    \cup {vehicles[v].start : v \in {w \in 1..Len(vehicles) : vehicles[w].has_start}}
    \cup {vehicles[v].end : v \in {w \in 1..Len(vehicles) : vehicles[w].has_end}}

AutoIndexMode == ~_no_addition_yet /\ ~_has_custom_location_index

\* C7: in auto-index mode, after successful additions only, two stored
\* locations have the same index iff they have the same coordinates, and
\* no addition changes the index of a location stored before it.
C7_SameCoordsSameIndex ==
    (~thrown /\ AutoIndexMode) =>
        \A a, b \in StoredLocations :
            (a.coords = b.coords) <=> (a.index = b.index)

C7_IndexKept ==
    (~thrown' /\ AutoIndexMode) =>
        /\ \A r \in 1..Len(jobs) :
              jobs'[r].location.index = jobs[r].location.index
        /\ \A v \in 1..Len(vehicles) :
              /\ vehicles'[v].start.index = vehicles[v].start.index
              /\ vehicles'[v].end.index = vehicles[v].end.index

C7_StableIndices == []C7_SameCoordsSameIndex /\ [][C7_IndexKept]_vars

\* Two jobs and a vehicle end at the same coordinates share an index, and
\* the vehicle start elsewhere has another.
C7_Witness ==
    /\ ~thrown /\ AutoIndexMode
    /\ Len(jobs) = 2 /\ Len(vehicles) = 1
    /\ jobs[1].location.coords = "A" /\ jobs[2].location.coords = "A"
    /\ jobs[1].location.index = jobs[2].location.index
    /\ vehicles[1].has_end /\ vehicles[1].end.index = jobs[1].location.index
    /\ vehicles[1].start.index # vehicles[1].end.index

Positions(loc) ==
    {i \in 1..Len(_locations) : LocKey(_locations[i]) = LocKey(loc)}

\* C8: after successful additions only, every stored location is in the
\* registry exactly once by value, _locations_to_index maps each registered
\* location to its position, in auto-index mode the indices in use are
\* exactly 0..|_locations|-1 with _locations[i].index() = i, and two single
\* jobs at the same coordinates with one vehicle starting elsewhere give two
\* registry entries and two distinct ranks.
C8_RegistryExact ==
    ~thrown =>
        /\ \A loc \in StoredLocations : Cardinality(Positions(loc)) = 1
        /\ \A i \in 1..Len(_locations) : Positions(_locations[i]) = {i}
        /\ DOMAIN _locations_to_index =
               {LocKey(_locations[i]) : i \in 1..Len(_locations)}
        /\ \A i \in 1..Len(_locations) :
               _locations_to_index[LocKey(_locations[i])] = i - 1
        /\ AutoIndexMode =>
               /\ {loc.index : loc \in StoredLocations}
                      = 0..(Len(_locations) - 1)
               /\ \A i \in 1..Len(_locations) : _locations[i].index = i - 1
        /\ ( /\ Len(jobs) = 2 /\ Len(vehicles) = 1
             /\ jobs[1].type = "SINGLE" /\ jobs[2].type = "SINGLE"
             /\ has_coordinates(jobs[1].location)
             /\ jobs[1].location.coords = jobs[2].location.coords
             /\ vehicles[1].has_start /\ ~vehicles[1].has_end
             /\ has_coordinates(vehicles[1].start)
             /\ vehicles[1].start.coords # jobs[1].location.coords )
           => /\ Len(_locations) = 2
              /\ job_id_to_rank[jobs[1].id] # job_id_to_rank[jobs[2].id]

\* The scenario: two jobs at A and a vehicle that starts at B.
C8_Witness ==
    /\ ~thrown
    /\ Len(jobs) = 2 /\ Len(vehicles) = 1
    /\ jobs[1].location.coords = "A" /\ jobs[2].location.coords = "A"
    /\ vehicles[1].has_start /\ ~vehicles[1].has_end
    /\ vehicles[1].start.coords = "B"
    /\ Len(_locations) = 2

\* A job as it was passed and as it is stored differ at most by the index
\* the registry gave its location.
SameJob(a, b) ==
    [a EXCEPT !.location.index = 0] = [b EXCEPT !.location.index = 0]

\* C9: after successful add_job and add_shipment calls only, every Pickup
\* at rank r is followed at rank r + 1 by a Delivery and every Delivery is
\* preceded by a Pickup, the two rank tables hold r and r + 1 for them, and
\* a successful add_shipment(pickup, delivery) appends exactly that pickup
\* and then that delivery.
C9_Adjacent ==
    ~thrown =>
        \A r \in 1..Len(jobs) :
            /\ jobs[r].type = "PICKUP" =>
                  /\ r < Len(jobs)
                  /\ jobs[r + 1].type = "DELIVERY"
                  /\ pickup_id_to_rank[jobs[r].id] = r - 1
                  /\ delivery_id_to_rank[jobs[r + 1].id] = r
                  /\ delivery_id_to_rank[jobs[r + 1].id]
                       - pickup_id_to_rank[jobs[r].id] = 1
            /\ jobs[r].type = "DELIVERY" =>
                  r > 1 /\ jobs[r - 1].type = "PICKUP"

C9_AppendsThePair ==
    (ncalls' = ncalls + 1 /\ call'.op = "add_shipment"
       /\ call'.ex = NoException) =>
        /\ Len(jobs') = Len(jobs) + 2
        /\ SameJob(jobs'[Len(jobs) + 1], call'.args[1])
        /\ SameJob(jobs'[Len(jobs) + 2], call'.args[2])

C9_PickupThenDelivery == []C9_Adjacent /\ [][C9_AppendsThePair]_vars

\* A single job, then a shipment stored at ranks 1 and 2.
C9_Witness ==
    /\ ~thrown
    /\ Len(jobs) = 3
    /\ jobs[1].type = "SINGLE"
    /\ jobs[2].type = "PICKUP" /\ jobs[3].type = "DELIVERY"
    /\ call.op = "add_shipment"

(***************************************************************************)
(* Properties of the compatibility passes.                                 *)
(***************************************************************************)
\* C5: on an instance built by successful additions only, the extra pass
\* leaves false every entry the skills pass made false, the entry of a
\* delivery written with its pickup included: it only turns true to false.
C5_ExtraOnlyNarrows ==
    [][ (pc = "skills" /\ pc' = "extra" /\ ~thrown) =>
          /\ Len(_vehicle_to_job_compatibility') = Len(vehicles)
          /\ \A v \in 1..Len(vehicles) :
                /\ Len(_vehicle_to_job_compatibility'[v]) = Len(jobs)
                /\ \A j \in 1..Len(jobs) :
                      ~_vehicle_to_job_compatibility[v][j]
                          => ~_vehicle_to_job_compatibility'[v][j] ]_vars

\* After the extra pass: a shipment whose two entries were written true
\* together for one vehicle and are false for a vehicle without its skills,
\* and a job that the skills pass let through and the capacity refused.
C5_Witness ==
    /\ pc = "extra" /\ ~thrown
    /\ \E v1, v2 \in 1..Len(vehicles) : \E j \in 1..Len(jobs) :
          /\ jobs[j].type = "PICKUP"
          /\ _vehicle_to_job_compatibility[v1][j]
          /\ _vehicle_to_job_compatibility[v1][j + 1]
          /\ ~(jobs[j + 1].skills \subseteq vehicles[v2].skills)
          /\ ~_vehicle_to_job_compatibility[v2][j + 1]
    /\ \E v \in 1..Len(vehicles) : \E j \in 1..Len(jobs) :
          /\ jobs[j].skills \subseteq vehicles[v].skills
          /\ ~_vehicle_to_job_compatibility[v][j]

Ranks(seq) == 0..(Len(seq) - 1)

\* C10: after set_vehicles_compatibility, vehicle_ok_with_vehicle is
\* symmetric and true of every vehicle with itself, whatever the jobs.
C10_SymmetricReflexive ==
    pc = "solved" =>
        /\ \A v1, v2 \in Ranks(vehicles) :
              vehicle_ok_with_vehicle(v1, v2) = vehicle_ok_with_vehicle(v2, v1)
        /\ \A v \in Ranks(vehicles) : vehicle_ok_with_vehicle(v, v)

\* Three vehicles: two share a job, the third has no compatible job at all.
C10_Witness ==
    /\ pc = "solved"
    /\ Len(vehicles) = 3
    /\ vehicle_ok_with_vehicle(0, 1) /\ vehicle_ok_with_vehicle(1, 0)
    /\ \E v \in 1..3 :
          /\ \A j \in 1..Len(jobs) : ~_vehicle_to_job_compatibility[v][j]
          /\ vehicle_ok_with_vehicle(v - 1, v - 1)
          /\ \E w \in 1..3 : ~vehicle_ok_with_vehicle(v - 1, w - 1)


(***************************************************************************)
(* SpecBound: check_cost_bound on every instance that MaxBoundAdds         *)
(* successful additions build over the indices 0 and 1, and every matrix   *)
(* of BoundCosts on those indices.                                         *)
(***************************************************************************)
MaxBoundAdds == 3

BoundCosts == {0, 3, 4}

\* The object after Input::Input as a record.
Fresh(has_skills, has_custom_location_index) ==
    [_no_addition_yet |-> TRUE, _has_skills |-> has_skills,
     _has_custom_location_index |-> has_custom_location_index,
     _has_TW |-> FALSE, _homogeneous_locations |-> TRUE,
     _homogeneous_profiles |-> TRUE, _has_jobs |-> FALSE,
     _has_shipments |-> FALSE, _max_matrices_used_index |-> 0,
     _all_locations_have_coords |-> TRUE, _geometry |-> FALSE,
     jobs |-> <<>>, vehicles |-> <<>>, job_id_to_rank |-> EmptyMap,
     pickup_id_to_rank |-> EmptyMap, delivery_id_to_rank |-> EmptyMap,
     _locations |-> <<>>, _locations_to_index |-> EmptyMap,
     _matrices_used_index |-> {}, _profiles |-> {}, ex |-> NoException]

\* The object is S.
Holds(S) ==
    /\ _no_addition_yet = S._no_addition_yet
    /\ _has_skills = S._has_skills
    /\ _has_custom_location_index = S._has_custom_location_index
    /\ _has_TW = S._has_TW
    /\ _homogeneous_locations = S._homogeneous_locations
    /\ _homogeneous_profiles = S._homogeneous_profiles
    /\ _has_jobs = S._has_jobs
    /\ _has_shipments = S._has_shipments
    /\ _max_matrices_used_index = S._max_matrices_used_index
    /\ _all_locations_have_coords = S._all_locations_have_coords
    /\ _geometry = S._geometry
    /\ jobs = S.jobs
    /\ vehicles = S.vehicles
    /\ job_id_to_rank = S.job_id_to_rank
    /\ pickup_id_to_rank = S.pickup_id_to_rank
    /\ delivery_id_to_rank = S.delivery_id_to_rank
    /\ _locations = S._locations
    /\ _locations_to_index = S._locations_to_index
    /\ _matrices_used_index = S._matrices_used_index
    /\ _profiles = S._profiles

AddJobCall(job) == [op |-> "add_job", args |-> <<job>>]
AddShipmentCall(pickup, delivery) ==
    [op |-> "add_shipment", args |-> <<pickup, delivery>>]
AddVehicleCall(vehicle) == [op |-> "add_vehicle", args |-> <<vehicle>>]

\* The object after the calls of a sequence, up to the first that throws.
RECURSIVE Ingest(_, _)
Ingest(S, calls) ==
    IF calls = <<>> \/ S.ex # NoException THEN S
    ELSE LET c == Head(calls)
             S1 == CASE c.op = "add_job" -> add_job(S, c.args[1])
                     [] c.op = "add_shipment" ->
                            add_shipment(S, c.args[1], c.args[2])
                     [] c.op = "add_vehicle" -> add_vehicle(S, c.args[1])
         IN  Ingest(S1, Tail(calls))

SeqsUpTo(P, n) == UNION {[1..k -> P] : k \in 0..n}

\* The n x n matrices with cells in C.
SquareMatrices(n, C) == [1..n -> [1..n -> C]]

BoundCalls ==
    { AddJobCall(SingleJob(1, IndexLoc(0), {})),
      AddJobCall(SingleJob(2, IndexLoc(1), {})),
      AddJobCall(SingleJob(3, IndexLoc(1), {})),
      AddVehicleCall(StartEndVehicle(1, IndexLoc(0), IndexLoc(1), {}, "car")),
      AddVehicleCall(StartVehicle(2, IndexLoc(1), {}, "car")),
      AddVehicleCall(Vehicle(3, FALSE, NoLoc, TRUE, IndexLoc(0), <<1>>, {},
                             DefaultTW, "car")) }

\* An instance built by successful additions, and a matrix that passed the
\* size test of set_matrices.
InitBound ==
    \E calls \in SeqsUpTo(BoundCalls, MaxBoundAdds) :
        LET S == Ingest(Fresh(FALSE, FALSE), calls)
        IN  /\ S.ex = NoException
            /\ Holds(S)
            /\ call = NoCall
            /\ ncalls = Len(calls)
            /\ thrown = FALSE
            /\ _vehicle_to_job_compatibility = <<>>
            /\ _vehicle_to_vehicle_compatibility = <<>>
            /\ pc = "loading"
            /\ failed_asserts = {}
            /\ out_of_range = FALSE
            /\ matrix \in SquareMatrices(2, BoundCosts)
            /\ cost_bound = NotComputed
            /\ _servers = Profiles
            /\ _routing_wrappers = <<>>
            /\ _custom_matrices = {}
            /\ _matrices = EmptyMap
            /\ thread_profiles = <<>>
            /\ ep = NullPtr
            /\ ep_m = 0
            /\ main = [pc |-> "idle", k |-> 0]
            /\ worker = <<>>
            /\ captured = <<>>
            /\ writers = EmptyMap
            /\ raised = NullPtr

CheckCostBound ==
    /\ ~cost_bound.done
    /\ cost_bound' = check_cost_bound(Self, matrix)
    /\ UNCHANGED <<inputVars, solveVars, matVars, matrix, call, ncalls,
                   thrown>>

NextBound == CheckCostBound

SpecBound == InitBound /\ [][NextBound]_vars

(***************************************************************************)
(* Properties of the cost bound.                                           *)
(***************************************************************************)
\* The sequences of distinct job ranks.
RECURSIVE Distinct(_)
Distinct(seq) ==
    Len(seq) <= 1 \/
    (Head(seq) \notin {seq[i] : i \in 2..Len(seq)} /\ Distinct(Tail(seq)))

JobSequences ==
    {seq \in SeqsUpTo(1..Len(jobs), Len(jobs)) : Distinct(seq)}

\* One route per vehicle, no job on two routes.
RouteSets ==
    {rs \in [1..Len(vehicles) -> JobSequences] :
        \A v, w \in 1..Len(vehicles) :
            v # w => {rs[v][i] : i \in DOMAIN rs[v]}
                        \cap {rs[w][i] : i \in DOMAIN rs[w]} = {}}

RECURSIVE SumSeq(_)
SumSeq(seq) == IF seq = <<>> THEN 0 ELSE Head(seq) + SumSeq(Tail(seq))

\* The locations a vehicle goes through on a route, as matrix indices.
Stops(v, route) ==
    (IF vehicles[v].has_start THEN <<vehicles[v].start.index>> ELSE <<>>)
    \o [i \in 1..Len(route) |-> jobs[route[i]].location.index]
    \o (IF vehicles[v].has_end THEN <<vehicles[v].end.index>> ELSE <<>>)

RouteCost(v, route) ==
    LET stops == Stops(v, route)
    IN  SumSeq([i \in 1..(Len(stops) - 1) |->
                   Cell(matrix, stops[i], stops[i + 1])])

TotalCost(rs) == SumSeq([v \in 1..Len(vehicles) |-> RouteCost(v, rs[v])])

\* start bound + max(jobs departure bound, jobs arrival bound) + end bound,
\* in unbounded integers.
RowMax(i) == MaxOf({Cell(matrix, i, j) : j \in _matrices_used_index})
ColMax(j) == MaxOf({Cell(matrix, i, j) : i \in _matrices_used_index})
ExactBound ==
    SumSeq([v \in 1..Len(vehicles) |->
              IF vehicles[v].has_start THEN RowMax(vehicles[v].start.index)
              ELSE 0])
    + Max(SumSeq([j \in 1..Len(jobs) |-> RowMax(jobs[j].location.index)]),
          SumSeq([j \in 1..Len(jobs) |-> ColMax(jobs[j].location.index)]))
    + SumSeq([v \in 1..Len(vehicles) |->
                IF vehicles[v].has_end THEN ColMax(vehicles[v].end.index)
                ELSE 0])

\* C6: when check_cost_bound returns without the overflow exception, the
\* value it computed is the exact sum start bound + max(departure bound,
\* arrival bound) + end bound, no set of routes costs more, and only cells
\* whose row and column are both referenced were read; and it throws
\* whenever the exact sum does not fit the cost type.
C6_BoundIsExactAndSound ==
    cost_bound.done =>
        /\ cost_bound.overflow <=> ExactBound > CostMax
        /\ ~cost_bound.overflow =>
              /\ cost_bound.bound = ExactBound
              /\ \A rs \in RouteSets : TotalCost(rs) <= cost_bound.bound
        /\ \A c \in cost_bound.cells :
              c[1] \in _matrices_used_index /\ c[2] \in _matrices_used_index

\* A bound that a set of routes reaches exactly: a vehicle with a start and
\* an end, and two jobs.
C6_Witness ==
    /\ cost_bound.done /\ ~cost_bound.overflow
    /\ Len(jobs) = 2 /\ Len(vehicles) = 1
    /\ vehicles[1].has_start /\ vehicles[1].has_end
    /\ cost_bound.bound > 0
    /\ \E rs \in RouteSets : TotalCost(rs) = cost_bound.bound


(***************************************************************************)
(* SpecMat: vehicles added and matrices set, then one set_matrices call    *)
(* with its worker threads interleaved in every way.                       *)
(***************************************************************************)
MaxMatCalls == 3

MaxThreads == 2

\* What the routing backend of a profile returns for n locations, when it
\* returns: high costs everywhere for bike, and a result of its own for car
\* and for foot.
Graded(n) == [i \in 1..n |-> [j \in 1..n |-> IF i = j THEN 0 ELSE i]]

GradedBack(n) == [i \in 1..n |-> [j \in 1..n |-> IF i = j THEN 0 ELSE j]]

BackendMatrix(profile, n) ==
    IF profile = "bike" THEN ConstMatrix(n, 4)
    ELSE IF profile = "foot" THEN GradedBack(n)
    ELSE Graded(n)

SetMatrix(profile, m) ==
    /\ _custom_matrices' = _custom_matrices \cup {profile}
    /\ _matrices' = MapPut(_matrices, profile, m)
    /\ call' = [op |-> "set_matrix", args |-> <<profile, m>>,
                ex |-> NoException]
    /\ ncalls' = ncalls + 1
    /\ UNCHANGED <<inputVars, solveVars, boundVars, _servers,
                   _routing_wrappers, threadVars, thrown>>

\* set_matrices(nb_thread) up to the creation of its threads; order is the
\* iteration order of _profiles.
SetMatricesCall(nb_thread, order) ==
    /\ main.pc = "idle"
    /\ LET nb_buckets == Min(nb_thread, Cardinality(_profiles))
           R == bucket_loop(order, 1,
                    [wrappers |-> _routing_wrappers, matrices |-> _matrices,
                     asserts |-> {}, ex |-> NoException])
       IN  IF _custom_matrices # {} /\ ~_has_custom_location_index
           THEN /\ call' = [op |-> "set_matrices", args |-> <<nb_thread>>,
                            ex |-> "Missing location index."]
                /\ thrown' = TRUE
                /\ raised' = [by |-> 0, ex |-> "Missing location index."]
                /\ main' = [pc |-> "done", k |-> 0]
                /\ UNCHANGED <<routingVars, failed_asserts, thread_profiles,
                               worker, writers>>
           ELSE /\ _routing_wrappers' = R.wrappers
                /\ _matrices' = R.matrices
                /\ failed_asserts' = failed_asserts \cup R.asserts
                /\ call' = [op |-> "set_matrices", args |-> <<nb_thread>>,
                            ex |-> R.ex]
                /\ thrown' = (R.ex # NoException)
                /\ raised' = IF R.ex # NoException
                             THEN [by |-> 0, ex |-> R.ex] ELSE NullPtr
                /\ main' = IF R.ex # NoException
                           THEN [pc |-> "done", k |-> 0]
                           ELSE [pc |-> "spawn", k |-> 0]
                /\ thread_profiles' =
                       IF R.ex # NoException THEN <<>>
                       ELSE round_robin(order, nb_buckets)
                /\ worker' =
                       IF R.ex # NoException THEN <<>>
                       ELSE [t \in 1..nb_buckets |->
                                [pc |-> "idle", pos |-> 1, ex |-> NullPtr]]
                /\ writers' = [profile \in _profiles |-> {}]
                /\ UNCHANGED <<_servers, _custom_matrices>>
    /\ ep' = NullPtr
    /\ ep_m' = 0
    /\ captured' = <<>>
    /\ UNCHANGED <<inputVars, _vehicle_to_job_compatibility,
                   _vehicle_to_vehicle_compatibility, pc, out_of_range,
                   boundVars, ncalls>>

\* matrix_threads.emplace_back(run_on_profiles, profiles), one bucket at a
\* time.
Spawn ==
    /\ main.pc = "spawn"
    /\ IF main.k < Len(thread_profiles)
       THEN /\ worker' = [worker EXCEPT ![main.k + 1].pc = "find"]
            /\ main' = [main EXCEPT !.k = @ + 1]
       ELSE /\ main' = [pc |-> "join", k |-> 0]
            /\ UNCHANGED worker
    /\ UNCHANGED <<inputVars, solveVars, boundVars, routingVars,
                   thread_profiles, ep, ep_m, captured, writers, raised,
                   call, ncalls, thrown>>

Running(t) == t \in DOMAIN worker

\* The profile thread t is at.
CurrentProfile(t) == thread_profiles[t][worker[t].pos]

\* The assignment reaching every matrix that is still empty, those of the
\* profiles of the other threads included.
AssignToEveryEmpty(t, m) ==
    /\ _matrices' = [profile \in DOMAIN _matrices |->
                        IF Len(_matrices[profile]) = 0 THEN m
                        ELSE _matrices[profile]]
    /\ writers' = [writers EXCEPT ![CurrentProfile(t)] = @ \cup {t}]
    /\ worker' = [worker EXCEPT ![t].pc = "check"]

Assign(t, m) ==
    /\ _matrices' = [_matrices EXCEPT ![CurrentProfile(t)] = m]
    /\ writers' = [writers EXCEPT ![CurrentProfile(t)] = @ \cup {t}]
    /\ worker' = [worker EXCEPT ![t].pc = "check"]

\* The body of the loop of run_on_profiles down to the assignment of the
\* profile's matrix. Without a routing wrapper for the profile the find_if
\* returns the end of _routing_wrappers, the assertion that follows is false
\* and (*rw)->get_matrix reads past the vector: what the thread does then
\* is not defined, and it goes on either way.
Assemble(t) ==
    /\ Running(t)
    /\ worker[t].pc = "find"
    /\ LET profile == CurrentProfile(t)
           has_rw == \E i \in DOMAIN _routing_wrappers :
                        _routing_wrappers[i] = profile
       IN  IF Len(_matrices[profile]) # 0
           THEN /\ worker' = [worker EXCEPT ![t].pc = "check"]
                /\ UNCHANGED <<_matrices, writers, failed_asserts,
                               out_of_range>>
           ELSE IF Len(_locations) = 1
           THEN /\ Assign(t, <<<<0>>>>)
                /\ UNCHANGED <<failed_asserts, out_of_range>>
           ELSE /\ failed_asserts' = failed_asserts \cup
                       (IF has_rw THEN {}
                        ELSE {"rw != _routing_wrappers.end()"})
                /\ out_of_range' = (out_of_range \/ ~has_rw)
                /\ \/ LET m == BackendMatrix(profile, Len(_locations))
                      IN  Assign(t, IF _has_custom_location_index
                                    THEN full_m(m) ELSE m)
                   \/ /\ worker' =
                            [worker EXCEPT
                               ![t].pc = "catch",
                               ![t].ex = [by |-> t,
                                          ex |-> RoutingFailure(profile)]]
                      /\ UNCHANGED <<_matrices, writers>>
    /\ UNCHANGED <<inputVars, _vehicle_to_job_compatibility,
                   _vehicle_to_vehicle_compatibility, pc, boundVars, _servers,
                   _routing_wrappers, _custom_matrices, thread_profiles, ep,
                   ep_m, main, captured, raised, call, ncalls, thrown>>

\* Whether check_cost_bound(m) stays inside m and inside its two vectors of
\* m.size() entries: the cells m[i][j] it reads, and the entries of
\* max_cost_per_line and max_cost_per_column it looks up for the jobs and
\* for the starts and ends of the vehicles.
reads_within(S, m) ==
    /\ \A c \in cells_read(S, m) : c[1] < Len(m) /\ c[2] < Len(m)
    /\ \A j \in 1..Len(S.jobs) : S.jobs[j].location.index < Len(m)
    /\ \A v \in 1..Len(S.vehicles) :
          /\ S.vehicles[v].has_start => S.vehicles[v].start.index < Len(m)
          /\ S.vehicles[v].has_end => S.vehicles[v].end.index < Len(m)

\* The size test letting through a matrix of exactly
\* _max_matrices_used_index rows.
ValidateOffByOne(t) ==
    /\ Running(t)
    /\ worker[t].pc = "check"
    /\ LET m == _matrices[CurrentProfile(t)]
           next == IF worker[t].pos < Len(thread_profiles[t])
                   THEN [worker EXCEPT ![t].pc = "find", ![t].pos = @ + 1]
                   ELSE [worker EXCEPT ![t].pc = "finished"]
           overflow == [worker EXCEPT
                          ![t].pc = "catch",
                          ![t].ex = [by |-> t, ex |-> CostOverflow]]
       IN  IF Len(m) < _max_matrices_used_index
           THEN /\ worker' =
                     [worker EXCEPT
                        ![t].pc = "catch",
                        ![t].ex = [by |-> t,
                                   ex |-> MatrixTooSmall(CurrentProfile(t))]]
                /\ UNCHANGED out_of_range
           ELSE IF ~reads_within(Self, m)
           THEN /\ out_of_range' = TRUE
                /\ worker' \in {next, overflow}
           ELSE /\ worker' = IF check_cost_bound(Self, m).overflow
                             THEN overflow ELSE next
                /\ UNCHANGED out_of_range
    /\ UNCHANGED <<inputVars, _vehicle_to_job_compatibility,
                   _vehicle_to_vehicle_compatibility, pc, failed_asserts,
                   boundVars, routingVars, thread_profiles, ep, ep_m, main,
                   captured, writers, raised, call, ncalls, thrown>>

\* The size test and check_cost_bound on the profile's matrix, then the
\* next profile of the bucket. A call of check_cost_bound that reads outside
\* the matrix has no defined outcome: it is recorded in out_of_range and
\* the thread goes on either way.
Validate(t) ==
    /\ Running(t)
    /\ worker[t].pc = "check"
    /\ LET m == _matrices[CurrentProfile(t)]
           next == IF worker[t].pos < Len(thread_profiles[t])
                   THEN [worker EXCEPT ![t].pc = "find", ![t].pos = @ + 1]
                   ELSE [worker EXCEPT ![t].pc = "finished"]
           overflow == [worker EXCEPT
                          ![t].pc = "catch",
                          ![t].ex = [by |-> t, ex |-> CostOverflow]]
       IN  IF Len(m) <= _max_matrices_used_index
           THEN /\ worker' =
                     [worker EXCEPT
                        ![t].pc = "catch",
                        ![t].ex = [by |-> t,
                                   ex |-> MatrixTooSmall(CurrentProfile(t))]]
                /\ UNCHANGED out_of_range
           ELSE IF ~reads_within(Self, m)
           THEN /\ out_of_range' = TRUE
                /\ worker' \in {next, overflow}
           ELSE /\ worker' = IF check_cost_bound(Self, m).overflow
                             THEN overflow ELSE next
                /\ UNCHANGED out_of_range
    /\ UNCHANGED <<inputVars, _vehicle_to_job_compatibility,
                   _vehicle_to_vehicle_compatibility, pc, failed_asserts,
                   boundVars, routingVars, thread_profiles, ep, ep_m, main,
                   captured, writers, raised, call, ncalls, thrown>>

\* ep_m.lock()
Lock(t) ==
    /\ Running(t)
    /\ worker[t].pc = "catch"
    /\ ep_m = 0
    /\ ep_m' = t
    /\ worker' = [worker EXCEPT ![t].pc = "locked"]
    /\ UNCHANGED <<inputVars, solveVars, boundVars, routingVars,
                   thread_profiles, ep, main, captured, writers, raised,
                   call, ncalls, thrown>>

\* ep = std::current_exception()
Capture(t) ==
    /\ Running(t)
    /\ worker[t].pc = "locked"
    /\ ep' = worker[t].ex
    /\ captured' = Append(captured, worker[t].ex)
    /\ worker' = [worker EXCEPT ![t].pc = "unlock"]
    /\ UNCHANGED <<inputVars, solveVars, boundVars, routingVars,
                   thread_profiles, ep_m, main, writers, raised,
                   call, ncalls, thrown>>

\* ep_m.unlock(), and the thread ends
Unlock(t) ==
    /\ Running(t)
    /\ worker[t].pc = "unlock"
    /\ ep_m' = 0
    /\ worker' = [worker EXCEPT ![t].pc = "finished"]
    /\ UNCHANGED <<inputVars, solveVars, boundVars, routingVars,
                   thread_profiles, ep, main, captured, writers, raised,
                   call, ncalls, thrown>>

\* The loop on matrix_threads going on without waiting for the thread.
JoinWithoutWaiting ==
    /\ main.pc = "join"
    /\ main.k < Len(thread_profiles)
    /\ main' = [main EXCEPT !.k = @ + 1]
    /\ UNCHANGED <<inputVars, solveVars, boundVars, routingVars,
                   thread_profiles, ep, ep_m, worker, captured, writers,
                   raised, call, ncalls, thrown>>

\* t.join(), one thread at a time
Join ==
    /\ main.pc = "join"
    /\ main.k < Len(thread_profiles)
    /\ worker[main.k + 1].pc = "finished"
    /\ main' = [main EXCEPT !.k = @ + 1]
    /\ UNCHANGED <<inputVars, solveVars, boundVars, routingVars,
                   thread_profiles, ep, ep_m, worker, captured, writers,
                   raised, call, ncalls, thrown>>

\* if (ep != nullptr) std::rethrow_exception(ep), or the normal return
Return ==
    /\ main.pc = "join"
    /\ main.k = Len(thread_profiles)
    /\ main' = [pc |-> "done", k |-> 0]
    /\ raised' = ep
    /\ call' = [call EXCEPT !.ex = ep.ex]
    /\ thrown' = (ep # NullPtr)
    /\ UNCHANGED <<inputVars, solveVars, boundVars, routingVars,
                   thread_profiles, ep, ep_m, worker, captured, writers,
                   ncalls>>

MatVehicles ==
    { StartVehicle(1, IndexLoc(0), {}, "car"),
      StartVehicle(2, IndexLoc(0), {}, "bike"),
      StartVehicle(3, IndexLoc(1), {}, "foot"),
      StartVehicle(4, CoordLoc("A"), {}, "car"),
      StartVehicle(5, CoordLoc("B"), {}, "bike"),
      StartVehicle(6, IndexLoc(2), {}, "car") }

\* a matrix that fits, and one that is too small for index 1
MatMatrices == { <<"car", ConstMatrix(2, 1)>>, <<"bike", ConstMatrix(1, 0)>> }

ServerSets == {Profiles, Profiles \ {"foot"}}

InitMat == InitInput /\ _servers \in ServerSets

\* An instance is given up at the first call that throws.
MatLoading == main.pc = "idle" /\ ~thrown /\ ncalls < MaxMatCalls

NextMat ==
    \/ MatLoading /\ \E vehicle \in MatVehicles : AddVehicle(vehicle)
    \/ MatLoading /\ \E cm \in MatMatrices : SetMatrix(cm[1], cm[2])
    \/ ~thrown /\ \E nb_thread \in 1..MaxThreads, order \in Orders(_profiles) :
           SetMatricesCall(nb_thread, order)
    \/ Spawn
    \/ \E t \in 1..MaxThreads : Assemble(t)
    \/ \E t \in 1..MaxThreads : Validate(t)
    \/ \E t \in 1..MaxThreads : Lock(t)
    \/ \E t \in 1..MaxThreads : Capture(t)
    \/ \E t \in 1..MaxThreads : Unlock(t)
    \/ Join
    \/ Return

SpecMat == InitMat /\ [][NextMat]_vars


(***************************************************************************)
(* Properties of set_matrices.                                             *)
(***************************************************************************)
\* The threads whose bucket holds a profile.
Owners(profile) ==
    {t \in DOMAIN thread_profiles :
        \E k \in DOMAIN thread_profiles[t] : thread_profiles[t][k] = profile}

\* The places of a profile in the buckets.
Places(profile) ==
    {tk \in (DOMAIN thread_profiles) \X (1..Cardinality(_profiles)) :
        /\ tk[2] \in DOMAIN thread_profiles[tk[1]]
        /\ thread_profiles[tk[1]][tk[2]] = profile}

\* C2: when several workers fail, set_matrices rethrows the first exception
\* that was stored into the slot; later ones do not replace it.
C2_FirstCapturedIsRaised ==
    (main.pc = "done" /\ captured # <<>>) => raised = captured[1]

\* What the code does: the slot holds the last exception stored, stores are
\* made by the holder of the mutex only, and the last one stored is rethrown.
LastCapturedIsRaised ==
    /\ ep = IF captured = <<>> THEN NullPtr ELSE captured[Len(captured)]
    /\ \A t \in DOMAIN worker :
          worker[t].pc \in {"locked", "unlock"} => ep_m = t
    /\ (main.pc = "done" /\ worker # <<>>) => raised = ep

\* C3: the profiles are dealt round-robin, each to exactly one of
\* min(nb_thread, |profiles|) threads; every profile has its entry in
\* _matrices before the first thread starts; no two threads assign the
\* matrix of the same profile; no thread inserts or removes a key.
C3_DisjointKeys ==
    worker # <<>> =>
        /\ Len(thread_profiles) = Min(call.args[1], Cardinality(_profiles))
        /\ \A t \in DOMAIN thread_profiles : thread_profiles[t] # <<>>
        /\ \A profile \in _profiles :
              /\ Cardinality(Places(profile)) = 1
              /\ profile \in DOMAIN _matrices
              /\ Cardinality(writers[profile]) <= 1
              /\ writers[profile] \subseteq Owners(profile)

C3_KeysKept ==
    main.pc \in {"spawn", "join"} => DOMAIN _matrices' = DOMAIN _matrices

C3_Sharding == []C3_DisjointKeys /\ [][C3_KeysKept]_vars

\* Three profiles on two threads, each matrix assigned by one thread, both
\* threads having assigned one.
C3_Witness ==
    /\ main.pc = "done"
    /\ Cardinality(_profiles) = 3
    /\ Len(thread_profiles) = 2
    /\ \A profile \in _profiles : Cardinality(writers[profile]) = 1
    /\ \E p, q \in _profiles : writers[p] = {1} /\ writers[q] = {2}


(***************************************************************************)
(* Properties of the ingestion calls: refusals.                            *)
(***************************************************************************)
\* The messages of the exceptions that ingestion throws with ERROR::INPUT.
InputErrors ==
    { "Inconsistent delivery length", "Inconsistent pickup length",
      "Missing skills.", "Missing location index.", "Wrong job type.",
      "Duplicate job id", "Inconsistent shipment priority.",
      "Inconsistent shipment amount.", "Inconsistent shipment skills.",
      "Wrong pickup type.", "Duplicate pickup id", "Wrong delivery type.",
      "Duplicate delivery id", "Inconsistent capacity length",
      "Missing start_index or end_index." }

\* The step is a call of op.
IsCall(op) == ncalls' = ncalls + 1 /\ call'.op = op

\* What C11 lists, for a pickup and a delivery handed to add_shipment.
ShipmentMismatch(pickup, delivery) ==
    \/ pickup.priority # delivery.priority
    \/ pickup.pickup # delivery.delivery
    \/ pickup.skills # delivery.skills
    \/ pickup.type # "PICKUP"
    \/ delivery.type # "DELIVERY"
    \/ pickup.id \in DOMAIN pickup_id_to_rank
    \/ delivery.id \in DOMAIN delivery_id_to_rank

C11_Refused ==
    (IsCall("add_shipment") /\ ShipmentMismatch(call'.args[1], call'.args[2]))
        => call'.ex \in InputErrors

C11_StoredShipmentsMatch ==
    (call.op = "add_shipment" /\ call.ex = NoException) =>
        LET pickup == jobs[Len(jobs) - 1]
            delivery == jobs[Len(jobs)]
        IN  /\ pickup.priority = delivery.priority
            /\ pickup.pickup = delivery.delivery
            /\ pickup.skills = delivery.skills
            /\ pickup.type = "PICKUP" /\ delivery.type = "DELIVERY"

\* C11: add_shipment fails with INPUT whenever the priorities differ, the
\* pickup's amount differs from the delivery's, the skill sets are not the
\* same set, a type is wrong, or the pickup id or the delivery id is already
\* in its table; so the two jobs stored by a successful add_shipment have
\* the same priority, amount and skills.
C11_ShipmentChecks == []C11_StoredShipmentsMatch /\ [][C11_Refused]_vars

\* A shipment is stored, then one with skills {1} on the pickup and none on
\* the delivery is refused.
C11_Witness ==
    /\ call.op = "add_shipment"
    /\ call.ex = "Inconsistent shipment skills."
    /\ call.args[1].skills = {1} /\ call.args[2].skills = {}
    /\ Len(jobs) = 2 /\ jobs[1].type = "PICKUP" /\ jobs[2].type = "DELIVERY"

\* A job whose delivery or pickup has not the length of the instance.
BadLength(job) ==
    Len(job.delivery) # _amount_size \/ Len(job.pickup) # _amount_size

GoodLengths ==
    /\ \A r \in 1..Len(jobs) : ~BadLength(jobs[r])
    /\ \A v \in 1..Len(vehicles) : Len(vehicles[v].capacity) = _amount_size

C12_Refused ==
    /\ (IsCall("add_job") /\ BadLength(call'.args[1]))
          => call'.ex \in InputErrors
    /\ (IsCall("add_shipment")
          /\ (BadLength(call'.args[1]) \/ BadLength(call'.args[2])))
          => call'.ex \in InputErrors
    /\ (IsCall("add_vehicle")
          /\ Len(call'.args[1].capacity) # _amount_size)
          => call'.ex \in InputErrors

C12_StoredLengths ==
    /\ ~thrown => GoodLengths
    /\ (call.op = "add_job" /\ call.ex = NoException)
          => ~BadLength(jobs[Len(jobs)])
    /\ (call.op = "add_shipment" /\ call.ex = NoException)
          => ~BadLength(jobs[Len(jobs) - 1]) /\ ~BadLength(jobs[Len(jobs)])
    /\ (call.op = "add_vehicle" /\ call.ex = NoException)
          => Len(vehicles[Len(vehicles)].capacity) = _amount_size

\* C12: an add_job, add_shipment or add_vehicle with a delivery, pickup or
\* capacity whose length is not _amount_size fails with INPUT, so what a
\* successful call stored has vectors of that length.
C12_AmountLengths == []C12_StoredLengths /\ [][C12_Refused]_vars

\* After a first addition, a job with a delivery of length 2 is refused.
C12_Witness ==
    /\ ncalls > 1
    /\ call.op = "add_job"
    /\ call.ex = "Inconsistent delivery length"
    /\ Len(call.args[1].delivery) = 2
    /\ _amount_size = 1

\* Every entry id -> r of a table leads to the job of that id and type, and
\* every job of that type is in the table.
TableSound(table, type) ==
    /\ \A id \in DOMAIN table :
          /\ table[id] \in Ranks(jobs)
          /\ jobs[table[id] + 1].id = id
          /\ jobs[table[id] + 1].type = type
    /\ \A r \in 1..Len(jobs) :
          jobs[r].type = type =>
              jobs[r].id \in DOMAIN table /\ table[jobs[r].id] = r - 1

C13_Unique ==
    /\ TableSound(job_id_to_rank, "SINGLE")
    /\ TableSound(pickup_id_to_rank, "PICKUP")
    /\ TableSound(delivery_id_to_rank, "DELIVERY")
    /\ \A r, q \in 1..Len(jobs) :
          (r # q /\ jobs[r].type = jobs[q].type) => jobs[r].id # jobs[q].id

C13_KeptAndRefused ==
    /\ Extends(job_id_to_rank, job_id_to_rank')
    /\ Extends(pickup_id_to_rank, pickup_id_to_rank')
    /\ Extends(delivery_id_to_rank, delivery_id_to_rank')
    /\ (IsCall("add_job") /\ call'.args[1].id \in DOMAIN job_id_to_rank)
          => call'.ex \in InputErrors
    /\ (IsCall("add_shipment")
          /\ (\/ call'.args[1].id \in DOMAIN pickup_id_to_rank
              \/ call'.args[2].id \in DOMAIN delivery_id_to_rank))
          => call'.ex \in InputErrors

\* C13: after any calls, refused ones included, the ids of the single jobs,
\* of the pickups and of the deliveries are unique each in their own table;
\* an addition with an id already in its table fails with INPUT; an entry
\* id -> r leads to the job of that id and type and never changes.
C13_IdsAndRanks == []C13_Unique /\ [][C13_KeptAndRefused]_vars

\* An id that is a single job's and a pickup's, refused for a second single
\* job.
C13_Witness ==
    /\ call.op = "add_job"
    /\ call.ex = "Duplicate job id"
    /\ call.args[1].id \in DOMAIN job_id_to_rank
    /\ call.args[1].id \in DOMAIN pickup_id_to_rank


(***************************************************************************)
(* SpecFleet: MaxFleet vehicles added.                                     *)
(***************************************************************************)
MaxFleet == 3

FleetVehicles ==
    { StartVehicle(1, CoordLoc("A"), {}, "car"),
      StartVehicle(2, CoordLoc("A"), {}, "bike"),
      StartVehicle(3, CoordLoc("B"), {}, "car"),
      StartEndVehicle(4, CoordLoc("A"), CoordLoc("B"), {}, "car"),
      Vehicle(5, FALSE, NoLoc, TRUE, CoordLoc("A"), <<1>>, {}, DefaultTW,
              "car"),
      \* a start by index
      StartVehicle(6, IndexLoc(0), {}, "car") }

InitFleet == InitInput /\ _servers = Profiles

NextFleet ==
    ncalls < MaxFleet /\ \E vehicle \in FleetVehicles : AddVehicle(vehicle)

SpecFleet == InitFleet /\ [][NextFleet]_vars

has_homogeneous_locations == _homogeneous_locations

has_homogeneous_profiles == _homogeneous_profiles

C14_Pairwise ==
    ~thrown =>
        /\ has_homogeneous_locations <=>
              \A v, w \in 1..Len(vehicles) :
                  has_same_locations(vehicles[v], vehicles[w])
        /\ has_homogeneous_profiles <=>
              \A v, w \in 1..Len(vehicles) :
                  vehicles[v].profile = vehicles[w].profile

C14_NeverTrueAgain ==
    /\ ~has_homogeneous_locations => ~has_homogeneous_locations'
    /\ ~has_homogeneous_profiles => ~has_homogeneous_profiles'

\* C14: after successful add_vehicle calls, has_homogeneous_locations() is
\* true iff every two vehicles have the same start and end, and
\* has_homogeneous_profiles() iff every two have the same profile; a flag
\* that is false stays false.
C14_Homogeneity == []C14_Pairwise /\ [][C14_NeverTrueAgain]_vars

\* Three vehicles of one profile: the third has the locations of the first,
\* the second has not.
C14_Witness ==
    /\ ~thrown /\ Len(vehicles) = 3
    /\ has_same_locations(vehicles[1], vehicles[3])
    /\ ~has_same_locations(vehicles[1], vehicles[2])
    /\ ~has_homogeneous_locations
    /\ has_homogeneous_profiles


(***************************************************************************)
(* SpecMatFair: SpecMat where, as long as a thread of set_matrices can     *)
(* take a step, one of them does: threads are scheduled, and a call of a   *)
(* routing backend returns.                                                *)
(***************************************************************************)
\* A step of set_matrices after its call: of the caller's thread or of a
\* worker thread.
Running_set_matrices ==
    \/ Spawn
    \/ Join
    \/ Return
    \/ \E t \in 1..MaxThreads :
          Assemble(t) \/ Validate(t) \/ Lock(t) \/ Capture(t) \/ Unlock(t)

SpecMatFair == SpecMat /\ WF_vars(Running_set_matrices)

\* set_matrices has returned or thrown.
Returned_set_matrices == main.pc = "done"

\* set_matrices threw by itself, on the caller's thread.
ThrewBeforeThreads == raised # NullPtr /\ raised.by = 0

C15_AllThreadsDone ==
    Returned_set_matrices =>
        /\ \A t \in DOMAIN worker :
              /\ worker[t].pc = "finished"
              /\ worker[t].ex # NullPtr =>
                    \E i \in DOMAIN captured : captured[i] = worker[t].ex
              /\ worker[t].ex = NullPtr =>
                    /\ worker[t].pos = Len(thread_profiles[t])
                    /\ \A k \in DOMAIN thread_profiles[t] :
                          Len(_matrices[thread_profiles[t][k]]) > 0
        /\ thrown <=> (captured # <<>> \/ ThrewBeforeThreads)
        /\ ThrewBeforeThreads => worker = <<>> /\ captured = <<>>

\* A step of a thread leaves the other threads where they are.
C15_OthersGoOn ==
    (worker # <<>> /\ worker' # <<>>) =>
        \A t, u \in DOMAIN worker :
            (t # u /\ worker'[t] # worker[t]) => worker'[u] = worker[u]

\* Once called, set_matrices returns or throws, which it does after all its
\* threads have ended.
C15_Terminates == (main.pc = "spawn") ~> Returned_set_matrices

NothingFits ==
    \A v \in 1..Len(vehicles) : \A j \in 1..Len(jobs) :
        ~is_valid_addition_for_capacity(vehicles[v], jobs[j].pickup,
                                        jobs[j].delivery)

\* C16: after set_vehicles_compatibility, two distinct vehicles are
\* compatible iff some job is compatible with both of them in the vehicle x
\* job matrix; when no job fits the capacity of any vehicle, no two distinct
\* vehicles are compatible and each vehicle is compatible with itself.
C16_SharedJob ==
    pc = "solved" =>
        /\ \A v1, v2 \in Ranks(vehicles) :
              v1 # v2 =>
                 (vehicle_ok_with_vehicle(v1, v2) <=>
                     \E j \in 1..Len(jobs) :
                        /\ _vehicle_to_job_compatibility[v1 + 1][j]
                        /\ _vehicle_to_job_compatibility[v2 + 1][j])
        /\ (NothingFits /\ ~out_of_range) =>
              \A v1, v2 \in Ranks(vehicles) :
                 vehicle_ok_with_vehicle(v1, v2) <=> (v1 = v2)

\* Two vehicles and two jobs that their skills allow and their capacities
\* refuse: the pair is incompatible, each vehicle is compatible with itself.
C16_Witness ==
    /\ pc = "solved" /\ ~thrown /\ failed_asserts = {}
    /\ Len(vehicles) = 2 /\ Len(jobs) = 2
    /\ \A v \in 1..2 : \A j \in 1..2 : skills_row(Self, v)[j]
    /\ NothingFits
    /\ ~vehicle_ok_with_vehicle(0, 1) /\ ~vehicle_ok_with_vehicle(1, 0)
    /\ vehicle_ok_with_vehicle(0, 0) /\ vehicle_ok_with_vehicle(1, 1)


(***************************************************************************)
(* The skills pass.                                                        *)
(***************************************************************************)
\* Some stored job or vehicle has a skill.
SkillsDeclared ==
    \/ \E j \in 1..Len(jobs) : jobs[j].skills # {}
    \/ \E v \in 1..Len(vehicles) : vehicles[v].skills # {}

\* C17: after set_skills_compatibility the vehicle x job matrix has one row
\* per vehicle and one column per job, and the entry of vehicle v and job j
\* is true iff the instance has no skills or the skills of j are a subset of
\* those of v; after successful additions, and at least one, the instance
\* has skills iff some stored object has one, and without skills every entry
\* is true.
C17_SkillsMatrix ==
    pc = "skills" =>
        /\ Len(_vehicle_to_job_compatibility) = Len(vehicles)
        /\ \A v \in 1..Len(vehicles) :
              /\ Len(_vehicle_to_job_compatibility[v]) = Len(jobs)
              /\ \A j \in 1..Len(jobs) :
                    _vehicle_to_job_compatibility[v][j] <=>
                        (~_has_skills \/
                             jobs[j].skills \subseteq vehicles[v].skills)
        /\ (~thrown /\ ~_no_addition_yet) =>
              (_has_skills <=> SkillsDeclared)
        /\ ~_has_skills =>
              \A v \in 1..Len(vehicles) : \A j \in 1..Len(jobs) :
                  _vehicle_to_job_compatibility[v][j]

\* Two vehicles and two jobs with skills: a vehicle with both entries true
\* and a vehicle with one entry true and one false.
C17_Witness ==
    /\ pc = "skills" /\ ~thrown /\ _has_skills
    /\ Len(vehicles) = 2 /\ Len(jobs) = 2
    /\ \E v, w \in 1..2 :
          /\ _vehicle_to_job_compatibility[v][1]
          /\ _vehicle_to_job_compatibility[v][2]
          /\ _vehicle_to_job_compatibility[w][1]
              # _vehicle_to_job_compatibility[w][2]


(***************************************************************************)
(* A pickup and its delivery in the vehicle x job matrix.                  *)
(***************************************************************************)
\* The positions in jobs of the pickups whose delivery follows them.
PickupPositions ==
    {p \in 1..(Len(jobs) - 1) :
        jobs[p].type = "PICKUP" /\ jobs[p + 1].type = "DELIVERY"}

\* C18: after successful additions only, once set_skills_compatibility has
\* run, and still after set_extra_compatibility, every vehicle has the same
\* entry for the pickup and for the delivery of every stored shipment.
C18_PairedEntries ==
    (pc \in {"skills", "extra"} /\ ~thrown) =>
        /\ \A p \in 1..Len(jobs) :
              jobs[p].type = "PICKUP" => p \in PickupPositions
        /\ \A v \in 1..Len(vehicles) : \A p \in PickupPositions :
              _vehicle_to_job_compatibility[v][p]
                  = _vehicle_to_job_compatibility[v][p + 1]

\* After the extra pass, a shipment that the skills pass allowed to a vehicle
\* and the extra pass refused to it, both entries false, next to a vehicle
\* that has both entries of a shipment true.
C18_Witness ==
    /\ pc = "extra" /\ ~thrown
    /\ \E v \in 1..Len(vehicles) : \E p \in PickupPositions :
          /\ skills_row(Self, v)[p] /\ skills_row(Self, v)[p + 1]
          /\ ~_vehicle_to_job_compatibility[v][p]
          /\ ~_vehicle_to_job_compatibility[v][p + 1]
    /\ \E v \in 1..Len(vehicles) : \E p \in PickupPositions :
          /\ _vehicle_to_job_compatibility[v][p]
          /\ _vehicle_to_job_compatibility[v][p + 1]


(***************************************************************************)
(* The matrices set_matrices leaves, whatever the threads.                 *)
(***************************************************************************)
\* The matrix of a profile without custom matrix, from the registered
\* locations and the result of the profile's backend alone.
FromBackend(profile, m) ==
    LET n == Len(_locations)
        b == BackendMatrix(profile, n)
    IN  IF n = 1 THEN m = <<<<0>>>>
        ELSE IF ~_has_custom_location_index THEN m = b
        ELSE /\ Len(m) = _max_matrices_used_index + 1
             /\ \A i, j \in 1..n :
                   Cell(m, _locations[i].index, _locations[j].index) = b[i][j]

C19_StoredMatrices ==
    (Returned_set_matrices /\ ~thrown /\ captured = <<>>) =>
        \A profile \in _profiles \ _custom_matrices :
            /\ profile \in DOMAIN _matrices
            /\ FromBackend(profile, _matrices[profile])

C19_WrittenOnce ==
    ~IsCall("set_matrix") =>
        \A profile \in DOMAIN _matrices :
            Len(_matrices[profile]) > 0 =>
                _matrices'[profile] = _matrices[profile]

\* C19: when set_matrices returns and no thread has failed, the matrix of
\* every profile without custom matrix is the one its backend result and the
\* registered locations give, for every number of threads, every order of
\* the profiles and every interleaving; a matrix that is set, by set_matrix
\* or by a thread, is never written again by set_matrices.
C19_ThreadIndependent == []C19_StoredMatrices /\ [][C19_WrittenOnce]_vars

\* Two threads, one profile each, two locations, and two different matrices
\* stored.
C19_Witness ==
    /\ Returned_set_matrices /\ ~thrown /\ captured = <<>>
    /\ Len(worker) = 2 /\ Len(_locations) = 2
    /\ \E p, q \in _profiles \ _custom_matrices :
          /\ writers[p] = {1} /\ writers[q] = {2}
          /\ _matrices[p] # _matrices[q]


(***************************************************************************)
(* Input::check: the ranks of the steps of the vehicles.                   *)
(***************************************************************************)
\* The build with libglpk; without it check does nothing but throw.
USE_LIBGLPK == TRUE

\* VehicleStep: a start, an end, a break or a job of some type, named by
\* id; its rank is set by check.
JobStep(job_type, id) ==
    [type |-> "JOB", job_type |-> job_type, id |-> id, rank |-> NoIndex]
BreakStep(id) ==
    [type |-> "BREAK", job_type |-> "SINGLE", id |-> id, rank |-> NoIndex]
StartStep ==
    [type |-> "START", job_type |-> "SINGLE", id |-> 0, rank |-> NoIndex]
EndStep ==
    [type |-> "END", job_type |-> "SINGLE", id |-> 0, rank |-> NoIndex]

\* The table the switch on step.job_type looks the id up in.
id_to_rank(S, job_type) ==
    CASE job_type = "SINGLE" -> S.job_id_to_rank
      [] job_type = "PICKUP" -> S.pickup_id_to_rank
      [] job_type = "DELIVERY" -> S.delivery_id_to_rank

InvalidId(job_type) ==
    CASE job_type = "SINGLE" -> "Invalid job id"
      [] job_type = "PICKUP" -> "Invalid pickup id"
      [] job_type = "DELIVERY" -> "Invalid delivery id"

DuplicateId(job_type) ==
    CASE job_type = "SINGLE" -> "Duplicate job id in input steps"
      [] job_type = "PICKUP" -> "Duplicate pickup id in input steps"
      [] job_type = "DELIVERY" -> "Duplicate delivery id in input steps"

\* planned_job_ids, planned_pickup_ids, planned_delivery_ids
NoPlanned == [job_type \in {"SINGLE", "PICKUP", "DELIVERY"} |-> {}]

\* step.rank = search->second
set_rank(S, v, i, rank) == [S EXCEPT !.vehicles[v].steps[i].rank = rank]

\* The two loops with the planned ids emptied at each vehicle.
RECURSIVE check_step_per_vehicle(_, _, _, _)
check_step_per_vehicle(S, v, i, planned) ==
    IF v > Len(S.vehicles) THEN S
    ELSE IF i > Len(S.vehicles[v].steps)
    THEN check_step_per_vehicle(S, v + 1, 1, NoPlanned)
    ELSE
    LET step == S.vehicles[v].steps[i]
    IN  IF step.type = "BREAK"
        THEN IF step.id \notin DOMAIN S.vehicles[v].break_id_to_rank
             THEN Throw(S, "Invalid break id")
             ELSE check_step_per_vehicle(
                      set_rank(S, v, i,
                               S.vehicles[v].break_id_to_rank[step.id]),
                      v, i + 1, planned)
        ELSE IF step.type = "JOB"
        THEN IF step.id \notin DOMAIN id_to_rank(S, step.job_type)
             THEN Throw(S, InvalidId(step.job_type))
             ELSE
             LET S1 == set_rank(S, v, i,
                                id_to_rank(S, step.job_type)[step.id])
             IN  IF step.id \in planned[step.job_type]
                 THEN Throw(S1, DuplicateId(step.job_type))
                 ELSE check_step_per_vehicle(S1, v, i + 1,
                          [planned EXCEPT ![step.job_type] = @ \cup {step.id}])
        ELSE check_step_per_vehicle(S, v, i + 1, planned)

\* The loop on the vehicles and the loop on the steps of a vehicle, from
\* step i of vehicle v (positions of the sequences) with the ids planned so
\* far: the sets of planned ids are declared before the loop on the vehicles
\* and go on from one vehicle to the next.
RECURSIVE check_step(_, _, _, _)
check_step(S, v, i, planned) ==
    IF v > Len(S.vehicles) THEN S
    ELSE IF i > Len(S.vehicles[v].steps)
    THEN check_step(S, v + 1, 1, planned)
    ELSE
    LET step == S.vehicles[v].steps[i]
    IN  IF step.type = "BREAK"
        THEN IF step.id \notin DOMAIN S.vehicles[v].break_id_to_rank
             THEN Throw(S, "Invalid break id")
             ELSE check_step(
                      set_rank(S, v, i,
                               S.vehicles[v].break_id_to_rank[step.id]),
                      v, i + 1, planned)
        ELSE IF step.type = "JOB"
        THEN IF step.id \notin DOMAIN id_to_rank(S, step.job_type)
             THEN Throw(S, InvalidId(step.job_type))
             ELSE
             LET S1 == set_rank(S, v, i,
                                id_to_rank(S, step.job_type)[step.id])
             IN  IF step.id \in planned[step.job_type]
                 THEN Throw(S1, DuplicateId(step.job_type))
                 ELSE check_step(S1, v, i + 1,
                          [planned EXCEPT ![step.job_type] = @ \cup {step.id}])
        ELSE check_step(S, v, i + 1, planned)

\* Input::check down to its call of set_matrices.
check(S) ==
    IF ~USE_LIBGLPK
    THEN Throw(S, "VROOM compiled without libglpk installed.")
    ELSE IF S._geometry /\ ~S._all_locations_have_coords
    THEN Throw(S, "Route geometry request with missing coordinates.")
    ELSE check_step(S, 1, 1, NoPlanned)

Check(nb_thread) == Returned(check(Self), "check", <<nb_thread>>)

\* Input::set_geometry
SetGeometry(geometry) ==
    Returned([Self EXCEPT !._geometry = geometry], "set_geometry",
             <<geometry>>)

(***************************************************************************)
(* SpecCheck: MaxCheckCalls calls that load an instance whose vehicles     *)
(* have steps, then check: the ranks of the steps, set_matrices with its   *)
(* threads, and the skills pass.                                           *)
(***************************************************************************)
MaxCheckCalls == 3

StepVehicle(id, breaks, steps) ==
    [StartVehicle(id, CoordLoc("A"), {}, "car") EXCEPT
        !.steps = steps, !.break_id_to_rank = breaks]

OneBreak == MapPut(EmptyMap, 1, 0)

CheckJobs ==
    { SingleJob(1, CoordLoc("B"), {}),
      \* a location without coordinates
      SingleJob(2, IndexLoc(0), {}) }

CheckShipments ==
    { <<PickupJob(1, CoordLoc("A"), {}, <<1>>, 0),
        DeliveryJob(1, CoordLoc("B"), {}, <<1>>, 0)>> }

CheckVehicles ==
    { StepVehicle(1, EmptyMap,
                  <<StartStep, JobStep("SINGLE", 1), EndStep>>),
      StepVehicle(2, EmptyMap, <<JobStep("SINGLE", 1)>>),
      StepVehicle(3, EmptyMap,
                  <<JobStep("SINGLE", 1), JobStep("SINGLE", 1)>>),
      StepVehicle(4, EmptyMap,
                  <<JobStep("PICKUP", 1), JobStep("DELIVERY", 1)>>),
      StepVehicle(5, OneBreak, <<StartStep, BreakStep(1)>>),
      StepVehicle(6, OneBreak, <<BreakStep(2)>>) }

InitCheck == InitInput /\ _servers = Profiles

\* No call of check yet, and no call that threw.
NotChecked == main.pc = "idle" /\ ~thrown /\ call.op # "check"

CheckLoading == NotChecked /\ ncalls < MaxCheckCalls

\* check has set the ranks and is about to call set_matrices.
Checking == main.pc = "idle" /\ ~thrown /\ call.op = "check"

NextCheck ==
    \/ CheckLoading /\ \E job \in CheckJobs : AddJob(job)
    \/ CheckLoading /\ \E sh \in CheckShipments : AddShipment(sh[1], sh[2])
    \/ CheckLoading /\ \E vehicle \in CheckVehicles : AddVehicle(vehicle)
    \/ CheckLoading /\ \E geometry \in BOOLEAN : SetGeometry(geometry)
    \/ NotChecked /\ \E nb_thread \in 1..MaxThreads : Check(nb_thread)
    \/ Checking /\ \E order \in Orders(_profiles) :
           SetMatricesCall(call.args[1], order)
    \/ Spawn
    \/ \E t \in 1..MaxThreads : Assemble(t)
    \/ \E t \in 1..MaxThreads : Validate(t)
    \/ \E t \in 1..MaxThreads : Lock(t)
    \/ \E t \in 1..MaxThreads : Capture(t)
    \/ \E t \in 1..MaxThreads : Unlock(t)
    \/ Join
    \/ Return
    \/ main.pc = "done" /\ ~thrown /\ SetSkillsCompatibility

SpecCheck == InitCheck /\ [][NextCheck]_vars

\* The steps of the fleet, by vehicle and place, and the steps to resolve.
StepPlaces ==
    UNION {{<<v, i>> : i \in 1..Len(vehicles[v].steps)} :
             v \in 1..Len(vehicles)}

StepAt(p) == vehicles[p[1]].steps[p[2]]

Resolved(p) == StepAt(p).type \in {"JOB", "BREAK"}

\* The table of the kind of a step: of its job type, or of the breaks of its
\* vehicle.
TableOf(p) ==
    IF StepAt(p).type = "BREAK" THEN vehicles[p[1]].break_id_to_rank
    ELSE IF StepAt(p).job_type = "SINGLE" THEN job_id_to_rank
    ELSE IF StepAt(p).job_type = "PICKUP" THEN pickup_id_to_rank
    ELSE delivery_id_to_rank

UnknownStep ==
    \E p \in StepPlaces : Resolved(p) /\ StepAt(p).id \notin DOMAIN TableOf(p)

SameJobStep(p, q) ==
    /\ p # q
    /\ StepAt(p).type = "JOB" /\ StepAt(q).type = "JOB"
    /\ StepAt(p).job_type = StepAt(q).job_type
    /\ StepAt(p).id = StepAt(q).id

DuplicateInOneVehicle ==
    \E p, q \in StepPlaces : p[1] = q[1] /\ SameJobStep(p, q)

DuplicateInFleet == \E p, q \in StepPlaces : SameJobStep(p, q)

GeometryWithoutCoords == _geometry /\ ~_all_locations_have_coords

C20_Throws ==
    IsCall("check") =>
        (call'.ex # NoException <=>
            (GeometryWithoutCoords \/ UnknownStep \/ DuplicateInFleet))

C20_Ranks ==
    (IsCall("check") /\ call'.ex = NoException) =>
        /\ Len(vehicles') = Len(vehicles)
        /\ \A p \in StepPlaces :
              vehicles'[p[1]].steps[p[2]] =
                  IF Resolved(p)
                  THEN [StepAt(p) EXCEPT !.rank = TableOf(p)[StepAt(p).id]]
                  ELSE StepAt(p)

ProfileIndices(profile) ==
    {jobs[j].location.index : j \in 1..Len(jobs)}
    \cup {vehicles[v].start.index :
            v \in {w \in 1..Len(vehicles) :
                     vehicles[w].has_start /\ vehicles[w].profile = profile}}
    \cup {vehicles[v].end.index :
            v \in {w \in 1..Len(vehicles) :
                     vehicles[w].has_end /\ vehicles[w].profile = profile}}

\* Thread t runs the size test, and check_cost_bound if the test lets it.
Validates(t) ==
    /\ t \in DOMAIN worker /\ t \in DOMAIN worker'
    /\ worker[t].pc = "check" /\ worker'[t].pc # "check"

TooSmallRaised(t) ==
    /\ worker'[t].pc = "catch"
    /\ worker'[t].ex.ex = MatrixTooSmall(CurrentProfile(t))

\* C21 as stated: the size test compares the size of the matrix with the
\* largest index referred to for the profile of the matrix.
C21_PerProfileMaximum ==
    [][ \A t \in 1..MaxThreads :
          Validates(t) =>
             (TooSmallRaised(t) <=>
                 Len(_matrices[CurrentProfile(t)])
                     <= MaxOf(ProfileIndices(CurrentProfile(t)))) ]_vars

C21_UsedIndices ==
    /\ ~out_of_range
    /\ \A i \in _matrices_used_index : i <= _max_matrices_used_index
    /\ _matrices_used_index # {} =>
          _max_matrices_used_index \in _matrices_used_index
    /\ _matrices_used_index = UNION {ProfileIndices(p) : p \in Profiles}

C21_SizeTest ==
    \A t \in 1..MaxThreads :
        Validates(t) =>
           /\ TooSmallRaised(t) <=>
                 Len(_matrices[CurrentProfile(t)]) <= _max_matrices_used_index
           /\ ~TooSmallRaised(t) =>
                 reads_within(Self, _matrices[CurrentProfile(t)])

\* C21: a thread throws 'location_index exceeding matrix size' for a profile
\* iff the matrix of the profile has no more rows than the largest index
\* that any job or vehicle of the instance refers to, whatever its profile;
\* check_cost_bound runs only on a matrix that passed this test and then
\* reads no cell, line or column outside the matrix.
C21_SizeBeforeBound == []C21_UsedIndices /\ [][C21_SizeTest]_vars

\* A custom matrix of one row for bike, whose vehicle is at index 0, is
\* refused because a vehicle of another profile is at index 1, while the
\* matrix of that profile passes the test and check_cost_bound.
C21_Witness ==
    /\ Returned_set_matrices /\ thrown
    /\ _max_matrices_used_index = 1
    /\ \E t, u \in DOMAIN worker :
          /\ worker[t].ex.ex = MatrixTooSmall("bike")
          /\ Len(_matrices["bike"]) = 1
          /\ MaxOf(ProfileIndices("bike")) = 0
          /\ worker[u].ex = NullPtr /\ worker[u].pc = "finished"


(***************************************************************************)
(* The matrix a thread assembles from the result of a backend.             *)
(***************************************************************************)
\* Thread t stores the matrix it got from the backend of its profile for
\* two locations or more.
AssemblesFromBackend(t) ==
    /\ t \in DOMAIN worker /\ t \in DOMAIN worker'
    /\ worker[t].pc = "find" /\ worker'[t].pc = "check"
    /\ CurrentProfile(t) \notin _custom_matrices
    /\ Len(_matrices[CurrentProfile(t)]) = 0
    /\ Len(_locations) >= 2

C22_Assembled ==
    \A t \in 1..MaxThreads :
        AssemblesFromBackend(t) =>
           LET profile == CurrentProfile(t)
               stored == _matrices'[profile]
               result == BackendMatrix(profile, Len(_locations))
           IN  IF _has_custom_location_index
               THEN /\ Len(stored) = _max_matrices_used_index + 1
                    /\ \A a \in DOMAIN stored :
                          Len(stored[a]) = _max_matrices_used_index + 1
                    /\ \A i, j \in 1..Len(_locations) :
                          stored[_locations[i].index + 1]
                                [_locations[j].index + 1] = result[i][j]
               ELSE stored = result

\* C22: with user-supplied indices, the matrix a thread stores for a profile
\* from the result of its backend for the list of locations, two or more,
\* is square of size _max_matrices_used_index + 1 and has the cell [i][j] of
\* the result at the indices of the i-th and of the j-th location; without
\* user-supplied indices the matrix stored is the result itself.
C22_Reindexed == [][C22_Assembled]_vars

\* A matrix of three rows stored for two locations given with the indices
\* 2 and 0, registered in that order.
C22_Witness ==
    /\ _has_custom_location_index /\ ~thrown
    /\ Len(_locations) = 2 /\ _max_matrices_used_index = 2
    /\ _locations[1].index = 2 /\ _locations[2].index = 0
    /\ \E t \in DOMAIN worker :
          /\ worker[t].pc = "check"
          /\ writers[CurrentProfile(t)] = {t}
          /\ Len(_matrices[CurrentProfile(t)]) = 3


(***************************************************************************)
(* SpecCustom: set_matrices on instances with user-supplied indices and    *)
(* custom matrices of every size from none to two rows.                    *)
(***************************************************************************)
CustomVehicles ==
    { StartVehicle(1, IndexLoc(0), {}, "car"),
      StartVehicle(2, IndexLoc(1), {}, "car"),
      StartVehicle(3, IndexLoc(0), {}, "bike") }

\* Matrix<Cost>(), a matrix of one row and a matrix of two
CustomMatrices ==
    { <<"car", <<>>>>,
      <<"car", ConstMatrix(1, 0)>>,
      <<"car", ConstMatrix(2, 1)>> }

InitCustom == InitInput /\ _servers = Profiles

NextCustom ==
    \/ MatLoading /\ \E vehicle \in CustomVehicles : AddVehicle(vehicle)
    \/ MatLoading /\ \E cm \in CustomMatrices : SetMatrix(cm[1], cm[2])
    \/ ~thrown /\ \E nb_thread \in 1..MaxThreads, order \in Orders(_profiles) :
           SetMatricesCall(nb_thread, order)
    \/ Spawn
    \/ \E t \in 1..MaxThreads : Assemble(t)
    \/ \E t \in 1..MaxThreads : Validate(t)
    \/ \E t \in 1..MaxThreads : Lock(t)
    \/ \E t \in 1..MaxThreads : Capture(t)
    \/ \E t \in 1..MaxThreads : Unlock(t)
    \/ Join
    \/ Return

SpecCustom == InitCustom /\ [][NextCustom]_vars

NoWrapperForCustom ==
    \A profile \in _custom_matrices :
        \A i \in DOMAIN _routing_wrappers : _routing_wrappers[i] # profile

\* A step that is not a call of set_matrix leaves every custom matrix as it
\* is and looks for no routing wrapper of its profile.
CustomKept ==
    ~IsCall("set_matrix") =>
        /\ \A profile \in _custom_matrices :
              _matrices'[profile] = _matrices[profile]
        /\ out_of_range' = out_of_range
        /\ failed_asserts' = failed_asserts

\* C23: set_matrices leaves the matrix of every profile given through
\* set_matrix as it is, whatever its size and the number of locations,
\* creates no routing wrapper for the profile and asks none for its matrix.
C23_CustomFrozen == []NoWrapperForCustom /\ [][CustomKept]_vars

\* What holds of the custom matrices that have a row at least.
NonEmptyCustomKept ==
    [][ ~IsCall("set_matrix") =>
          \A profile \in _custom_matrices :
              Len(_matrices[profile]) > 0 =>
                 _matrices'[profile] = _matrices[profile] ]_vars


(***************************************************************************)
(* The assertion and the write of column j + 1 in the extra pass.          *)
(***************************************************************************)
\* C24: after successful additions only, set_extra_compatibility never
\* finds assert(is_shipment_pickup) false, that is never tests the time
\* windows of a delivery by itself, and never writes the entry after a
\* pickup past the end of the row.
C24_DeliveryNeverTested ==
    (~thrown /\ pc \in {"extra", "solved"}) =>
        /\ "is_shipment_pickup" \notin failed_asserts
        /\ ~out_of_range

\* With time windows: a shipment at the end of the job list that one vehicle
\* lacks the skills for, so that the loop comes to its delivery, and that
\* another vehicle has the skills and the capacity for, so that its time
\* windows are tested as a pair and the last entry of the row is written.
C24_Witness ==
    /\ pc = "extra" /\ ~thrown /\ _has_TW
    /\ Len(jobs) >= 2
    /\ jobs[Len(jobs) - 1].type = "PICKUP" /\ jobs[Len(jobs)].type = "DELIVERY"
    /\ \E v \in 1..Len(vehicles) : ~skills_row(Self, v)[Len(jobs) - 1]
    /\ \E v \in 1..Len(vehicles) :
          /\ skills_row(Self, v)[Len(jobs) - 1]
          /\ is_valid_addition_for_capacity(vehicles[v],
                                            jobs[Len(jobs) - 1].pickup,
                                            jobs[Len(jobs) - 1].delivery)


(***************************************************************************)
(* The size test on a matrix that set_matrices computed.                   *)
(***************************************************************************)
ComputedHere(t) == Validates(t) /\ CurrentProfile(t) \notin _custom_matrices

\* C25: the size test of set_matrices never fails on a matrix that was
\* computed (the backend's matrix, its re-indexed copy, or the 1x1 zero
\* matrix of a single location); it can fail on a user-supplied matrix only.
C25_ComputedAlwaysFits ==
    [][ \A t \in 1..MaxThreads : ComputedHere(t) => ~TooSmallRaised(t) ]_vars

\* What holds: the matrix computed from two locations or more, or with the
\* indices given by the order in _locations, passes the size test.
ComputedFitsButOneUserLocation ==
    [][ \A t \in 1..MaxThreads :
          (ComputedHere(t) /\ TooSmallRaised(t)) =>
              (_has_custom_location_index /\ Len(_locations) = 1) ]_vars


(***************************************************************************)
(* SpecAgain: Input::solve called again on the same Input.  solve is       *)
(* set_matrices with its threads, the three compatibility passes, and its  *)
(* return, after which the caller can add to the instance or solve again.  *)
(***************************************************************************)
MaxAgainCalls == 4

AgainVehicles ==
    { StartVehicle(1, CoordLoc("A"), {}, "car"),
      StartVehicle(2, CoordLoc("B"), {}, "bike") }

AgainJobs == { SingleJob(1, CoordLoc("B"), {}) }

\* The end of Input::solve once the compatibility matrices are filled.
SolveReturn ==
    /\ pc = "solved"
    /\ main.pc = "done"
    /\ pc' = "loading"
    /\ main' = [pc |-> "idle", k |-> 0]
    /\ call' = [op |-> "solve", args |-> <<>>, ex |-> NoException]
    /\ ncalls' = ncalls + 1
    /\ UNCHANGED <<inputVars, _vehicle_to_job_compatibility,
                   _vehicle_to_vehicle_compatibility, failed_asserts,
                   out_of_range, boundVars, routingVars, thread_profiles, ep,
                   ep_m, worker, captured, writers, raised, thrown>>

InitAgain == InitInput /\ _servers = Profiles

BetweenSolves ==
    main.pc = "idle" /\ pc = "loading" /\ ~thrown /\ ncalls < MaxAgainCalls

NextAgain ==
    \/ BetweenSolves /\ \E vehicle \in AgainVehicles : AddVehicle(vehicle)
    \/ BetweenSolves /\ \E job \in AgainJobs : AddJob(job)
    \/ BetweenSolves /\ \E nb_thread \in 1..MaxThreads,
                           order \in Orders(_profiles) :
           SetMatricesCall(nb_thread, order)
    \/ Spawn
    \/ \E t \in 1..MaxThreads : Assemble(t)
    \/ \E t \in 1..MaxThreads : Validate(t)
    \/ \E t \in 1..MaxThreads : Lock(t)
    \/ \E t \in 1..MaxThreads : Capture(t)
    \/ \E t \in 1..MaxThreads : Unlock(t)
    \/ Join
    \/ Return
    \/ main.pc = "done" /\ ~thrown /\ SetSkillsCompatibility
    \/ SetExtraCompatibility
    \/ SetVehiclesCompatibility
    \/ SolveReturn

SpecAgain == InitAgain /\ [][NextAgain]_vars

MatrixAssemblyAsserts ==
    {"no routing wrapper for the profile yet", "no matrix for the profile yet"}

\* The compatibility matrices as solve leaves them.
CompatDimensions ==
    pc = "solved" =>
        /\ Len(_vehicle_to_job_compatibility) = Len(vehicles)
        /\ \A v \in 1..Len(vehicles) :
              Len(_vehicle_to_job_compatibility[v]) = Len(jobs)
        /\ Len(_vehicle_to_vehicle_compatibility) = Len(vehicles)
        /\ \A v \in 1..Len(vehicles) :
              Len(_vehicle_to_vehicle_compatibility[v]) = Len(vehicles)
        /\ _vehicle_to_job_compatibility =
              set_extra_compatibility(Self, set_skills_compatibility(Self))

\* C26: whatever the number of times solve is called on an Input, neither
\* the assertion of add_routing_wrapper (no wrapper for the profile yet) nor
\* the one before the placeholder (no matrix for the profile yet) fails, and
\* each call leaves compatibility matrices of |vehicles| x |jobs| and
\* |vehicles| x |vehicles| computed from the instance as it is.
C26_AssertsHoldOnEverySolve ==
    /\ failed_asserts \cap MatrixAssemblyAsserts = {}
    /\ CompatDimensions

\* What holds: the assertions fail only for a profile that an earlier call
\* of set_matrices has given a wrapper; the compatibility matrices are
\* recomputed every time (CompatDimensions).
AssertsFailOnReuseOnly ==
    (failed_asserts \cap MatrixAssemblyAsserts # {}) =>
        \E i, j \in DOMAIN _routing_wrappers :
            i # j /\ _routing_wrappers[i] = _routing_wrappers[j]

=============================================================================
